---- MODULE Spec2Model ----
(***************************************************************************)
(* A model of the MySQL storage adapter's query compiler                   *)
(* (buildWhereClause and its helpers).                                     *)
(*                                                                         *)
(* JavaScript values are modelled as tagged records, so that values of     *)
(* different JavaScript types can be compared:                             *)
(*   undefined, null, string, number, boolean, object (an ordered list of  *)
(*   key/value entries, as JavaScript keeps insertion order) and array.    *)
(* A SQL pattern is a sequence of tokens: verbatim text of the source's    *)
(* template literals, placeholders $k:name, and text interpolated from the *)
(* query (an inlined identifier or an inlined literal).                    *)
(***************************************************************************)
EXTENDS Integers, Sequences, FiniteSets, TLC

\* schema, query, index: the caller's arguments of buildWhereClause (schema and
\*   query are the caller's objects, which the calls work on)
\* results: what the calls made so far gave the caller, in call order
\* given: the query document as the caller built it (a history variable)
VARIABLES schema, query, index, results, given

\* regexp: a $regex pattern given to the regex literalizer
\* processed: what processRegexPattern gave for it (undefined before the call)
\* literalized: what literalizeRegexPart gave for it (undefined before the call)
VARIABLES regexp, processed, literalized

\* declared: a class schema as its caller declared it (a history variable)
\* stored: the schema object, which toMySQLSchema and toParseSchema work on
\* internalised: toMySQLSchema has been applied to stored
\* external: what toParseSchema gave for stored (undefined before the call)
VARIABLES declared, stored, internalised, external

\* update: the update document of transformUpdate (the caller's object, which
\*   the call works on)
\* requested: the update document as the caller built it (a history variable)
\* statement: what transformUpdate gave for it (undefined before the call)
\* rows: the values a Number column of a row has had: the one it had before
\*   the statement was applied and the one after each application
VARIABLES update, requested, statement, rows

\* routine: the compiler function a chain of calls is in
\* document: the query argument of the current call of buildWhereClause
\* pattern_text: the string argument of the current call of the regex literalizer
\* nesting: how many recursive calls lead to the current call
VARIABLES routine, document, pattern_text, nesting

\* request: an operation of the storage adapter and its arguments
\* issued: the statements the operation has sent to the database
\* replied: the replies of the database to the statements sent
\* settled: how the promise of the operation is settled (undefined before)
VARIABLES request, issued, replied, settled

\* connectionPromise: this.connectionPromise, the number of the attempt whose
\*   promise is cached, 0 when the property is absent
\* database: this.database, the number of the connection, 0 when absent
\* connections: what became of each call of mysql.createConnection, in order
\* returned: the attempt whose promise the last connect() returned
VARIABLES connectionPromise, database, connections, returned

queryVars == <<schema, query, index, results, given>>
regexVars == <<regexp, processed, literalized>>
schemaVars == <<declared, stored, internalised, external>>
updateVars == <<update, requested, statement, rows>>
callVars == <<routine, document, pattern_text, nesting>>
adapterVars == <<request, issued, replied, settled>>
connectVars == <<connectionPromise, database, connections, returned>>
vars == <<queryVars, regexVars, schemaVars, updateVars, callVars, adapterVars,
          connectVars>>

(***************************************************************************)
(* JavaScript values                                                       *)
(***************************************************************************)
Undef == [t |-> "undefined"]
Null == [t |-> "null"]
Str(s) == [t |-> "string", s |-> s]
Num(n) == [t |-> "number", n |-> n]
Bool(b) == [t |-> "boolean", b |-> b]
Obj(kv) == [t |-> "object", kv |-> kv]
Arr(el) == [t |-> "array", el |-> el]
KV(k, v) == [k |-> k, v |-> v]

\* JSON.stringify(v): the string holding the JSON text of v
JSONstringify(v) == [t |-> "string", json |-> v]

IsObj(v) == v.t = "object"
IsArr(v) == v.t = "array"
IsNullish(v) == v.t \in {"undefined", "null"}

\* typeof v
TypeOf(v) == IF v.t \in {"null", "array"} THEN "object" ELSE v.t

\* the conversion of v to boolean in a condition
Truthy(v) ==
  CASE v.t = "undefined" -> FALSE
    [] v.t = "null" -> FALSE
    [] v.t = "boolean" -> v.b
    [] v.t = "number" -> "n" \in DOMAIN v /\ v.n # 0
    [] v.t = "string" -> v # Str("")
    [] OTHER -> TRUE

KeyIndex(kv, k) ==
  LET hits == {i \in 1..Len(kv) : kv[i].k = k}
  IN IF hits = {} THEN 0 ELSE CHOOSE i \in hits : TRUE

\* o[k] / o.k for a non-nullish o (a property of a primitive is undefined)
Get(o, k) ==
  IF IsObj(o)
  THEN LET i == KeyIndex(o.kv, k) IN IF i = 0 THEN Undef ELSE o.kv[i].v
  ELSE Undef

\* o[k] = v on an object: an existing key keeps its place, a new key is appended
Set(o, k, v) ==
  LET i == KeyIndex(o.kv, k)
  IN IF i = 0 THEN Obj(Append(o.kv, KV(k, v)))
     ELSE Obj([o.kv EXCEPT ![i] = KV(k, v)])

\* delete o[k]
Delete(o, k) ==
  Obj(SelectSeq(o.kv, LAMBDA e : e.k # k))

\* a[i] with JavaScript's zero-based index
At(a, i) ==
  IF IsArr(a) /\ i >= 0 /\ i < Len(a.el) THEN a.el[i + 1] ELSE Undef

\* String(v), the coercion a template literal applies to ${v}
RECURSIVE JoinStrings(_, _)
JoinStrings(ss, sep) ==
  IF Len(ss) = 0 THEN ""
  ELSE IF Len(ss) = 1 THEN ss[1]
  ELSE ss[1] \o sep \o JoinStrings(Tail(ss), sep)

RECURSIVE StringOf(_)
StringOf(v) ==
  CASE v.t = "undefined" -> "undefined"
    [] v.t = "null" -> "null"
    [] v.t = "boolean" -> IF v.b THEN "true" ELSE "false"
    [] v.t = "number" -> IF "n" \in DOMAIN v THEN ToString(v.n) ELSE "NaN"
    [] v.t = "string" -> IF "s" \in DOMAIN v THEN v.s ELSE "<json>"
    [] v.t = "array" ->
         JoinStrings([i \in 1..Len(v.el) |->
                        IF IsNullish(v.el[i]) THEN "" ELSE StringOf(v.el[i])], ",")
    [] OTHER -> "[object Object]"

(***************************************************************************)
(* Pattern tokens                                                          *)
(***************************************************************************)
\* verbatim text of a template literal
T(s) == [txt |-> s]
\* the placeholder $k:name
P(k) == [ph |-> k]
\* text interpolated from the query document
Inlined(s) == [lit |-> s]

RECURSIVE Join(_, _)
\* patterns.join(sep), on token sequences
Join(pats, sep) ==
  IF Len(pats) = 0 THEN <<>>
  ELSE IF Len(pats) = 1 THEN pats[1]
  ELSE pats[1] \o <<T(sep)>> \o Join(Tail(pats), sep)

(***************************************************************************)
(* Strings                                                                 *)
(***************************************************************************)
CharAt(s, i) == SubSeq(s, i, i)

\* s.indexOf('.') >= 0
HasDot(s) == \E i \in 1..Len(s) : CharAt(s, i) = "."

RECURSIVE SplitFrom(_, _, _)
SplitFrom(s, from, i) ==
  IF i > Len(s) THEN <<SubSeq(s, from, Len(s))>>
  ELSE IF CharAt(s, i) = "."
       THEN <<SubSeq(s, from, i - 1)>> \o SplitFrom(s, i + 1, i + 1)
       ELSE SplitFrom(s, from, i + 1)

\* s.split('.')
SplitDots(s) == SplitFrom(s, 1, 1)

(***************************************************************************)
(* Schemas                                                                 *)
(***************************************************************************)
StringField == Obj(<<KV("type", Str("String"))>>)
ArrayField == Obj(<<KV("type", Str("Array"))>>)
ArrayOfStringField ==
  Obj(<<KV("type", Str("Array")), KV("contents", Obj(<<KV("type", Str("String"))>>))>>)

toMySQLSchema(sch) ==
  IF ~Truthy(sch) THEN sch
  ELSE LET f0 == IF Truthy(Get(sch, "fields")) THEN Get(sch, "fields") ELSE Obj(<<>>)
           f1 == Set(f0, "_wperm", ArrayOfStringField)
           f2 == Set(f1, "_rperm", ArrayOfStringField)
           f3 == IF Get(sch, "className") = Str("_User")
                 THEN Set(Set(f2, "_hashed_password", StringField),
                          "_password_history", ArrayField)
                 ELSE f2
       IN Set(sch, "fields", f3)

\* schema.fields[fieldName], on an internal schema
SchemaField(sch, fieldName) == Get(Get(sch, "fields"), fieldName)

isArrayField(sch, fieldName) ==
  /\ Truthy(Get(sch, "fields"))
  /\ Truthy(SchemaField(sch, fieldName))
  /\ Get(SchemaField(sch, fieldName), "type") = Str("Array")

\* schema.fields[fieldName].contents && schema.fields[fieldName].contents.type === 'String'
hasStringContents(sch, fieldName) ==
  /\ Truthy(Get(SchemaField(sch, fieldName), "contents"))
  /\ Get(Get(SchemaField(sch, fieldName), "contents"), "type") = Str("String")

\* the permissions that deny every action, and those that allow every action
Actions == <<"find", "get", "create", "update", "delete", "addField">>
emptyCLPS == Obj([j \in DOMAIN Actions |-> KV(Actions[j], Obj(<<>>))])
defaultCLPS == Obj([j \in DOMAIN Actions |-> KV(Actions[j], Obj(<<KV("*", Bool(TRUE))>>))])

RECURSIVE Spread(_, _, _)
\* {...base, ...o}, from the k-th property of o on
Spread(base, o, k) ==
  IF ~IsObj(o) \/ k > Len(o.kv) THEN base
  ELSE Spread(Set(base, o.kv[k].k, o.kv[k].v), o, k + 1)

\* a variant of ClassLevelPermissions that fills the actions the map leaves out
\* from the allow-all default
PermissionsOverDefault(sch) ==
  IF Truthy(Get(sch, "classLevelPermissions"))
  THEN Spread(defaultCLPS, Get(sch, "classLevelPermissions"), 1)
  ELSE defaultCLPS

\* clps of toParseSchema
ClassLevelPermissions(sch) ==
  IF Truthy(Get(sch, "classLevelPermissions"))
  THEN Spread(emptyCLPS, Get(sch, "classLevelPermissions"), 1)
  ELSE defaultCLPS

\* delete schema.fields[name]
DeleteField(sch, name) ==
  IF IsObj(Get(sch, "fields")) THEN Set(sch, "fields", Delete(Get(sch, "fields"), name))
  ELSE sch

\* the schema object as toParseSchema leaves it, when it does not throw
WithoutImplicitFields(sch) ==
  IF Truthy(Get(sch, "fields"))
  THEN DeleteField(DeleteField(sch, "_wperm"), "_rperm")
  ELSE sch

\* toParseSchema(schema): the schema returned or the exception thrown, and the
\* schema object as the call leaves it
toParseSchema(sch) ==
  IF Get(sch, "className") = Str("_User") /\ IsNullish(Get(sch, "fields"))
  THEN [ctl |-> "throw", value |-> Undef, schema |-> sch]
  ELSE IF Get(sch, "className") = Str("_User")
  THEN [ctl |-> "return",
        value |-> Obj(<<KV("className", Get(sch, "className")),
                        KV("fields", Get(WithoutImplicitFields(
                                           DeleteField(sch, "_hashed_password")), "fields")),
                        KV("classLevelPermissions", ClassLevelPermissions(sch))>>),
        schema |-> WithoutImplicitFields(DeleteField(sch, "_hashed_password"))]
  ELSE [ctl |-> "return",
        value |-> Obj(<<KV("className", Get(sch, "className")),
                        KV("fields", Get(WithoutImplicitFields(sch), "fields")),
                        KV("classLevelPermissions", ClassLevelPermissions(sch))>>),
        schema |-> WithoutImplicitFields(sch)]

(***************************************************************************)
(* The compiler's running state while one field is processed:              *)
(* patterns, values, sorts and index are the source's variables, fv is the *)
(* field's value (the object query[fieldName], which the code may write    *)
(* to), ctl says how the loop body ended ("run": still running,            *)
(* "continue", "throw") and err is the exception thrown.                   *)
(***************************************************************************)
NoError == [code |-> "none", message |-> <<>>]
ParseError(code, message) == [code |-> code, message |-> message]
TypeError == [code |-> "TypeError", message |-> <<>>]

Throw(st, err) == [st EXCEPT !.ctl = "throw", !.err = err]
Continue(st) == [st EXCEPT !.ctl = "continue"]

\* patterns.push(pat); values.push(...vals); index += n
Emit(st, pat, vals, n) ==
  [st EXCEPT !.patterns = Append(@, pat), !.values = @ \o vals, !.index = @ + n]

\* the backquote character of the SQL text (the character itself is special to
\* the TLA+ lexer, so it is written as a token of its own)
BQ == [txt |-> "[backquote]"]

\* an identifier interpolated from a field name
Ident(s) == [id |-> s]

(***************************************************************************)
(* buildWhereClause: the branches of the loop body, in source order        *)
(***************************************************************************)
RECURSIVE buildWhereClause(_, _, _)

\* a variant of SkipAbsentField that skips nothing
NeverSkipField(sch, fieldName, st) == st

\* a field absent from the schema with {$exists: false}: continue
SkipAbsentField(sch, fieldName, st) ==
  IF /\ ~Truthy(SchemaField(sch, fieldName))
     /\ Truthy(st.fv)
     /\ Get(st.fv, "$exists") = Bool(FALSE)
  THEN Continue(st)
  ELSE st

RECURSIVE NestedPath(_, _)
\* components.map(...) for the components after the second: name += .cmpt
NestedPath(components, i) ==
  IF i > Len(components) THEN <<>>
  ELSE <<T("."), Ident(components[i])>> \o NestedPath(components, i + 1)

\* the JSON-path extraction expression built from a dotted field name
DottedName(fieldName) ==
  LET c == SplitDots(fieldName)
  IN <<BQ, Ident(c[1]), BQ, T("->>"), T("'$."), Ident(c[2])>>
       \o NestedPath(c, 3) \o <<T("'")>>

\* the fragment of a dotted field name: the value is interpolated into the text
DottedField(fieldName, st) ==
  IF st.fv = Null
  THEN Emit(st, <<BQ>> \o DottedName(fieldName) \o <<BQ, T(" IS NULL")>>, <<>>, 0)
  ELSE Emit(st, DottedName(fieldName) \o <<T(" = '"), Inlined(StringOf(st.fv)), T("'")>>,
            <<>>, 0)

\* a variant of BranchAdvance that starts every sub-query at the same index
BranchNoAdvance(idx, clause) == idx

\* index += clause.values.length, after a branch that returned a pattern
BranchAdvance(idx, clause) == idx + Len(clause.values)

RECURSIVE CompileBranches(_, _, _, _)
RECURSIVE BranchCompiled(_, _, _, _, _)
\* fieldValue.forEach(subQuery => ...) from the k-th sub-query on. acc holds the
\* running index, clauses, clauseValues, the sub-queries as the calls leave them,
\* and the exception a call threw
CompileBranches(sch, els, k, acc) ==
  IF k > Len(els) \/ acc.err # NoError THEN acc
  ELSE BranchCompiled(sch, els, k, acc, buildWhereClause(sch, els[k], acc.index))

\* the callback of the forEach once the k-th sub-query is compiled to clause
BranchCompiled(sch, els, k, acc, clause) ==
  IF clause.ctl = "throw"
  THEN [acc EXCEPT !.els[k] = clause.query, !.err = clause.err]
  ELSE IF Len(clause.pattern) > 0
       THEN CompileBranches(sch, els, k + 1,
              [acc EXCEPT !.els[k] = clause.query,
                          !.clauses = Append(@, clause.pattern),
                          !.clauseValues = @ \o clause.values,
                          !.index = BranchAdvance(@, clause)])
       ELSE CompileBranches(sch, els, k + 1, [acc EXCEPT !.els[k] = clause.query])

\* ' OR ' or ' AND '
orOrAnd(fieldName) == IF fieldName = "$or" THEN " OR " ELSE " AND "

\* patterns.push of the parenthesised clauses.join(orOrAnd)
BooleanFragment(fieldName, clauses) ==
  <<T("(")>> \o Join(clauses, orOrAnd(fieldName)) \o <<T(")")>>

\* the $or / $and branch once the forEach has ended with r
BooleanClauses(fieldName, st, r) ==
  IF r.err # NoError THEN Throw([st EXCEPT !.fv = Arr(r.els)], r.err)
  ELSE [st EXCEPT !.fv = Arr(r.els),
                  !.patterns = Append(@, BooleanFragment(fieldName, r.clauses)),
                  !.values = @ \o r.clauseValues,
                  !.index = r.index]

\* the $or / $and branch
BooleanField(sch, fieldName, st) ==
  IF ~IsArr(st.fv) THEN Throw(st, TypeError)
  ELSE BooleanClauses(fieldName, st,
         CompileBranches(sch, st.fv.el, 1,
           [index |-> st.index, clauses |-> <<>>, clauseValues |-> <<>>,
            els |-> st.fv.el, err |-> NoError]))

\* the first if / else-if chain of the loop body
ShapeBranch(sch, fieldName, st) ==
  LET fv == st.fv
      i == st.index
  IN CASE HasDot(fieldName) -> DottedField(fieldName, st)
       [] fv = Null ->
            Continue(Emit(st, <<BQ, P(i), BQ, T(" IS NULL")>>, <<Str(fieldName)>>, 1))
       [] TypeOf(fv) = "string" ->
            Emit(st, <<BQ, P(i), BQ, T(" = '"), P(i + 1), T("'")>>,
                 <<Str(fieldName), fv>>, 2)
       [] TypeOf(fv) = "boolean" ->
            Emit(st, <<BQ, P(i), BQ, T(" = "), P(i + 1)>>, <<Str(fieldName), fv>>, 2)
       [] TypeOf(fv) = "number" ->
            Emit(st, <<BQ, P(i), BQ, T(" = "), P(i + 1)>>, <<Str(fieldName), fv>>, 2)
       [] fieldName = "$or" \/ fieldName = "$and" -> BooleanField(sch, fieldName, st)
       [] OTHER -> st

\* the $ne branch
NeBranch(sch, fieldName, st) ==
  LET ne == Get(st.fv, "$ne")
      i == st.index
  IN IF ne = Undef THEN st
     ELSE IF isArrayField(sch, fieldName)
     THEN LET enc == JSONstringify(Arr(<<ne>>))
              st1 == [st EXCEPT !.fv = Set(@, "$ne", enc)]
          IN Emit(st1, <<T("JSON_CONTAINS("), BQ, P(i), BQ, T(", '"), P(i + 1), T("') != 1")>>,
                  <<Str(fieldName), enc>>, 2)
     ELSE IF ne = Null
     THEN Continue(Emit(st, <<BQ, P(i), BQ, T(" IS NOT NULL")>>, <<Str(fieldName)>>, 1))
     ELSE Emit(st, <<T("("), BQ, P(i), BQ, T(" <> '"), P(i + 1), T("' OR "), BQ, P(i),
                     BQ, T(" IS NULL)")>>,
               <<Str(fieldName), ne>>, 2)

\* the $eq branch
EqBranch(fieldName, st) ==
  LET i == st.index
  IN IF Truthy(Get(st.fv, "$eq"))
     THEN Emit(st, <<BQ, P(i), BQ, T(" = '"), P(i + 1), T("'")>>,
               <<Str(fieldName), Get(st.fv, "$eq")>>, 2)
     ELSE st


(***************************************************************************)
(* The regex literalizer                                                   *)
(***************************************************************************)
StartsWith(s, p) == Len(s) >= Len(p) /\ SubSeq(s, 1, Len(p)) = p
EndsWith(s, p) == Len(s) >= Len(p) /\ SubSeq(s, Len(s) - Len(p) + 1, Len(s)) = p
\* p occurs in s at position i (positions count from 1)
MatchAt(s, i, p) == i >= 1 /\ i + Len(p) - 1 <= Len(s) /\ SubSeq(s, i, i + Len(p) - 1) = p
Least(S) == CHOOSE p \in S : \A q \in S : p <= q

Alphanumerics ==
  {"0", "1", "2", "3", "4", "5", "6", "7", "8", "9",
   "a", "b", "c", "d", "e", "f", "g", "h", "i", "j", "k", "l", "m",
   "n", "o", "p", "q", "r", "s", "t", "u", "v", "w", "x", "y", "z",
   "A", "B", "C", "D", "E", "F", "G", "H", "I", "J", "K", "L", "M",
   "N", "O", "P", "Q", "R", "S", "T", "U", "V", "W", "X", "Y", "Z"}
WhiteSpace == {" ", "\t", "\n", "\r", "\f"}
\* the characters the regex dot does not match
LineTerminators == {"\n", "\r"}

\* the replacement of one character of a literal span
LiteralChar(c) ==
  IF c \in Alphanumerics THEN c
  ELSE IF c = "'" THEN "''" ELSE "\\" \o c

createLiteralRegex(remaining) ==
  JoinStrings([i \in 1..Len(remaining) |-> LiteralChar(CharAt(remaining, i))], "")

\* .* can span s[a..b]
DotStar(s, a, b) == \A i \in a..b : CharAt(s, i) \notin LineTerminators

\* the start positions at which /\\Q((?!\\E).*)\\E$/ matches
Matcher1(s) ==
  {p \in 1..Len(s) : /\ MatchAt(s, p, "\\Q")
                     /\ ~MatchAt(s, p + 2, "\\E")
                     /\ EndsWith(s, "\\E")
                     /\ Len(s) - 1 >= p + 2
                     /\ DotStar(s, p + 2, Len(s) - 2)}

\* the start positions at which /\\Q((?!\\E).*)$/ matches
Matcher2(s) ==
  {p \in 1..Len(s) : /\ MatchAt(s, p, "\\Q")
                     /\ ~MatchAt(s, p + 2, "\\E")
                     /\ DotStar(s, p + 2, Len(s))}

\* s.replace(/([^\\])(marker)/, '$1'): the first marker that follows a
\* character other than a backslash is removed
RemoveFirstMarker(s, marker) ==
  LET hits == {i \in 1..Len(s) : CharAt(s, i) # "\\" /\ MatchAt(s, i + 1, marker)}
  IN IF hits = {} THEN s
     ELSE LET i == Least(hits)
          IN SubSeq(s, 1, i) \o SubSeq(s, i + 1 + Len(marker), Len(s))

\* s.replace(/^marker/, '')
RemoveLeadingMarker(s, marker) ==
  IF StartsWith(s, marker) THEN SubSeq(s, Len(marker) + 1, Len(s)) ELSE s

\* s.replace(/([^'])'/, "$1''"): the first quote that follows a character other
\* than a quote is doubled
DoubleFirstQuote(s) ==
  LET hits == {i \in 1..Len(s) : CharAt(s, i) # "'" /\ MatchAt(s, i + 1, "'")}
  IN IF hits = {} THEN s
     ELSE LET i == Least(hits)
          IN SubSeq(s, 1, i) \o "''" \o SubSeq(s, i + 2, Len(s))

\* s.replace(/^'([^'])/, "''$1")
DoubleLeadingQuote(s) ==
  IF StartsWith(s, "'") /\ Len(s) >= 2 /\ CharAt(s, 2) # "'"
  THEN "'" \o s
  ELSE s

\* s.replace('\\w', '[0-9a-zA-Z]'): the first occurrence only
ReplaceWordClass(s) ==
  LET hits == {i \in 1..Len(s) : MatchAt(s, i, "\\w")}
  IN IF hits = {} THEN s
     ELSE LET i == Least(hits)
          IN SubSeq(s, 1, i - 1) \o "[0-9a-zA-Z]" \o SubSeq(s, i + 2, Len(s))

\* the text outside any literal span
StripMarkers(s) ==
  ReplaceWordClass(
    DoubleLeadingQuote(
      DoubleFirstQuote(
        RemoveLeadingMarker(
          RemoveLeadingMarker(
            RemoveFirstMarker(RemoveFirstMarker(s, "\\E"), "\\Q"),
            "\\E"),
          "\\Q"))))

RECURSIVE literalizeRegexPart(_)
literalizeRegexPart(s) ==
  IF Matcher1(s) # {}
  THEN LET p == Least(Matcher1(s))
       IN literalizeRegexPart(SubSeq(s, 1, p - 1))
            \o createLiteralRegex(SubSeq(s, p + 2, Len(s) - 2))
  ELSE IF Matcher2(s) # {}
  THEN LET p == Least(Matcher2(s))
       IN literalizeRegexPart(SubSeq(s, 1, p - 1))
            \o createLiteralRegex(SubSeq(s, p + 2, Len(s)))
  ELSE StripMarkers(s)

\* s is a non-empty string here (the caller tests fieldValue.$regex)
processRegexPattern(s) ==
  IF StartsWith(s, "^") THEN "^" \o literalizeRegexPart(SubSeq(s, 2, Len(s)))
  ELSE IF EndsWith(s, "$") THEN literalizeRegexPart(SubSeq(s, 1, Len(s) - 1)) \o "$"
  ELSE literalizeRegexPart(s)

\* the position of the first line terminator of s at or after i (0 if none)
LineEnd(s, i) ==
  LET ends == {j \in i..Len(s) : CharAt(s, j) = "\n" /\ DotStar(s, i, j - 1)}
  IN IF ends = {} THEN 0 ELSE Least(ends)

RECURSIVE StripComments(_, _)
\* .replace(/([^\\])#.*\n/gmi, '$1'), matching from position pos on
StripComments(s, pos) ==
  LET hits == {i \in pos..Len(s) : /\ CharAt(s, i) # "\\"
                                   /\ MatchAt(s, i + 1, "#")
                                   /\ LineEnd(s, i + 2) # 0}
  IN IF hits = {} THEN SubSeq(s, pos, Len(s))
     ELSE LET i == Least(hits)
          IN SubSeq(s, pos, i) \o StripComments(s, LineEnd(s, i + 2) + 1)

RECURSIVE StripCommentLines(_, _)
\* .replace(/^#.*\n/gmi, ''), matching from position pos on
StripCommentLines(s, pos) ==
  LET hits == {i \in pos..Len(s) : /\ i = 1 \/ CharAt(s, i - 1) \in LineTerminators
                                   /\ CharAt(s, i) = "#"
                                   /\ LineEnd(s, i + 1) # 0}
  IN IF hits = {} THEN SubSeq(s, pos, Len(s))
     ELSE LET i == Least(hits)
          IN SubSeq(s, pos, i - 1) \o StripCommentLines(s, LineEnd(s, i + 1) + 1)

\* the last position of the run of white space that starts at i
RunEnd(s, i) ==
  Least({j \in i..Len(s) : j = Len(s) \/ CharAt(s, j + 1) \notin WhiteSpace})

RECURSIVE StripSpace(_, _)
\* .replace(/([^\\])\s+/gmi, '$1'), matching from position pos on
StripSpace(s, pos) ==
  LET hits == {i \in pos..Len(s) - 1 : /\ CharAt(s, i) # "\\"
                                       /\ CharAt(s, i + 1) \in WhiteSpace}
  IN IF hits = {} THEN SubSeq(s, pos, Len(s))
     ELSE LET i == Least(hits)
          IN SubSeq(s, pos, i) \o StripSpace(s, RunEnd(s, i + 1) + 1)

RECURSIVE TrimStart(_)
TrimStart(s) ==
  IF Len(s) > 0 /\ CharAt(s, 1) \in WhiteSpace THEN TrimStart(SubSeq(s, 2, Len(s))) ELSE s

RECURSIVE TrimEnd(_)
TrimEnd(s) ==
  IF Len(s) > 0 /\ CharAt(s, Len(s)) \in WhiteSpace
  THEN TrimEnd(SubSeq(s, 1, Len(s) - 1))
  ELSE s

removeWhiteSpace(regex) ==
  LET r0 == IF EndsWith(regex, "\n") THEN regex ELSE regex \o "\n"
      r1 == StripComments(r0, 1)
      r2 == StripCommentLines(r1, 1)
      r3 == StripSpace(r2, 1)
  IN TrimEnd(TrimStart(TrimStart(r3)))


(***************************************************************************)
(* buildWhereClause: $in and $nin                                          *)
(***************************************************************************)
\* the placeholder index of the containment test of the list element at listIndex
InPlaceholder(idx, listIndex, allowNull) ==
  idx + 1 + listIndex - (IF allowNull THEN 1 ELSE 0)

RECURSIVE InStringArray(_, _, _, _)
\* fieldValue.$in.forEach((listElem, listIndex) => ...) on an Array-of-String
\* field, from the k-th element on; acc holds allowNull, the values pushed and
\* inPatterns
InStringArray(list, k, idx, acc) ==
  IF k > Len(list) THEN acc
  ELSE IF list[k] = Null
  THEN InStringArray(list, k + 1, idx, [acc EXCEPT !.allowNull = TRUE])
  ELSE InStringArray(list, k + 1, idx,
         [acc EXCEPT !.values = Append(@, list[k]),
                     !.inPatterns = Append(@,
                        <<T("JSON_CONTAINS("), BQ, P(idx), BQ, T(", JSON_ARRAY('"),
                          P(InPlaceholder(idx, k - 1, acc.allowNull)), T("')) = 1")>>)])

\* the $in branch of an Array field with String contents
InStringArrayBranch(fieldName, st) ==
  LET i == st.index
      r == InStringArray(Get(st.fv, "$in").el, 1, i,
             [allowNull |-> FALSE, values |-> <<>>, inPatterns |-> <<>>])
      tempInPattern == Join(r.inPatterns, " OR ")
      pat == IF r.allowNull
             THEN <<T("("), BQ, P(i), BQ, T(" IS NULL OR ")>> \o tempInPattern \o <<T(")")>>
             ELSE <<BQ, P(i), BQ, T(" && ")>> \o tempInPattern
  IN Emit(st, pat, <<Str(fieldName)>> \o r.values, 1 + Len(r.inPatterns))

RECURSIVE Flatten(_)
Flatten(els) ==
  IF Len(els) = 0 THEN <<>>
  ELSE (IF IsArr(els[1]) THEN els[1].el ELSE <<els[1]>>) \o Flatten(Tail(els))

\* _.flatMap(collection, elt => elt): the elements, arrays among them spread
flatMap(collection) ==
  IF IsArr(collection) THEN Flatten(collection.el)
  ELSE IF IsObj(collection)
       THEN Flatten([i \in 1..Len(collection.kv) |-> collection.kv[i].v])
       ELSE <<>>

\* createConstraint(baseArray, notIn)
createConstraint(sch, fieldName, st, baseArray, notIn) ==
  LET i == st.index
      n == Len(baseArray)
  IN IF n > 0
     THEN IF isArrayField(sch, fieldName)
          THEN LET operator == IF notIn THEN " != " ELSE " = "
                   inPatterns == [k \in 1..n |->
                      <<T("JSON_CONTAINS("), BQ, P(i), BQ, T(", '"), P(i + 1 + (k - 1)),
                        T("') "), T(operator), T(" 1")>>]
               IN Emit(st, Join(inPatterns, " || "),
                       <<Str(fieldName)>> \o [k \in 1..n |-> JSONstringify(baseArray[k])],
                       1 + n)
          ELSE LET not == IF notIn THEN " NOT " ELSE ""
                   inPatterns == [k \in 1..n |-> <<T("'"), P(i + 1 + (k - 1)), T("'")>>]
               IN Emit(st, <<BQ, P(i), BQ, T(" "), T(not), T(" IN (")>>
                             \o Join(inPatterns, ",") \o <<T(")")>>,
                       <<Str(fieldName)>> \o baseArray,
                       1 + n)
     ELSE IF ~notIn
          THEN Emit(st, <<BQ, P(i), BQ, T(" IS NULL")>>, <<Str(fieldName)>>, 1)
          ELSE st

\* the $nin half of the generic branch: if (fieldValue.$nin) createConstraint(.., true)
NinConstraint(sch, fieldName, st) ==
  IF Truthy(Get(st.fv, "$nin"))
  THEN createConstraint(sch, fieldName, st, flatMap(Get(st.fv, "$nin")), TRUE)
  ELSE st

\* the generic $in / $nin branch
InOrNinBranch(sch, fieldName, st) ==
  LET s1 == IF Truthy(Get(st.fv, "$in"))
            THEN createConstraint(sch, fieldName, st, flatMap(Get(st.fv, "$in")), FALSE)
            ELSE st
  IN NinConstraint(sch, fieldName, s1)

\* the $in / $nin if / else-if
InBranch(sch, fieldName, st) ==
  LET isInOrNin == IsArr(Get(st.fv, "$in")) \/ IsArr(Get(st.fv, "$nin"))
  IN IF /\ IsArr(Get(st.fv, "$in"))
        /\ isArrayField(sch, fieldName)
        /\ hasStringContents(sch, fieldName)
     THEN InStringArrayBranch(fieldName, st)
     ELSE IF isInOrNin THEN InOrNinBranch(sch, fieldName, st)
     ELSE st

(***************************************************************************)
(* buildWhereClause: $all, $exists, $text                                  *)
(***************************************************************************)
AllBranch(sch, fieldName, st) ==
  LET i == st.index
  IN IF IsArr(Get(st.fv, "$all")) /\ isArrayField(sch, fieldName)
     THEN Emit(st, <<T("JSON_CONTAINS("), BQ, P(i), BQ, T(", '"), P(i + 1), T("') = 1")>>,
               <<Str(fieldName), JSONstringify(Get(st.fv, "$all"))>>, 2)
     ELSE st

ExistsBranch(fieldName, st) ==
  LET i == st.index
  IN IF Get(st.fv, "$exists") # Undef
     THEN IF Truthy(Get(st.fv, "$exists"))
          THEN Emit(st, <<P(i), T(" IS NOT NULL")>>, <<Str(fieldName)>>, 1)
          ELSE Emit(st, <<BQ, P(i), BQ, T(" IS NULL")>>, <<Str(fieldName)>>, 1)
     ELSE st

InvalidJson(text) == ParseError("INVALID_JSON", <<T(text)>>)

TextBranch(fieldName, st) ==
  LET i == st.index
      search == Get(Get(st.fv, "$text"), "$search")
      term == Get(search, "$term")
      language == Get(search, "$language")
      caseSensitive == Get(search, "$caseSensitive")
      diacriticSensitive == Get(search, "$diacriticSensitive")
  IN IF ~Truthy(Get(st.fv, "$text")) THEN st
     ELSE IF TypeOf(search) # "object"
     THEN Throw(st, InvalidJson("bad $text: $search, should be object"))
     ELSE IF search = Null THEN Throw(st, TypeError)
     ELSE IF ~Truthy(term) \/ TypeOf(term) # "string"
     THEN Throw(st, InvalidJson("bad $text: $term, should be string"))
     ELSE IF Truthy(language) /\ TypeOf(language) # "string"
     THEN Throw(st, InvalidJson("bad $text: $language, should be string"))
     ELSE IF Truthy(caseSensitive) /\ TypeOf(caseSensitive) # "boolean"
     THEN Throw(st, InvalidJson("bad $text: $caseSensitive, should be boolean"))
     ELSE IF Truthy(caseSensitive)
     THEN Throw(st, InvalidJson("bad $text: $caseSensitive not supported, please use $regex or create a separate lower case column."))
     ELSE IF Truthy(diacriticSensitive) /\ TypeOf(diacriticSensitive) # "boolean"
     THEN Throw(st, InvalidJson("bad $text: $diacriticSensitive, should be boolean"))
     ELSE IF diacriticSensitive = Bool(FALSE)
     THEN Throw(st, InvalidJson("bad $text: $diacriticSensitive - false not supported, install MySQL Unaccent Extension"))
     ELSE Emit(st, <<T("MATCH ("), BQ, P(i), BQ, T(") AGAINST ('"), P(i + 1), T("')")>>,
               <<Str(fieldName), term>>, 2)


(***************************************************************************)
(* buildWhereClause: the geo branches                                      *)
(***************************************************************************)
\* the result of an arithmetic operation on something that is not a number
NaN == [t |-> "number", nan |-> TRUE]

\* v * k
Times(v, k) == IF v.t = "number" /\ "n" \in DOMAIN v THEN Num(v.n * k) ELSE NaN

\* the interpolation ${v} of a coordinate
Coord(v) == StringOf(v)

\* v[i] for a zero-based i, on an array or an object
Elem(v, i) == IF IsArr(v) THEN At(v, i) ELSE Get(v, ToString(i))

\* ST_Distance_Sphere(.., ST_GeomFromText('POINT(.. ..)'))
DistanceSphere(i) ==
  <<T("ST_Distance_Sphere("), BQ, P(i), BQ, T(", ST_GeomFromText('POINT("), P(i + 1),
    T(" "), P(i + 2), T(")'))")>>

\* distance * 6371 * 1000
distanceInKM(distance) == Times(Times(distance, 6371), 1000)

\* sorts.push(..) of the $nearSphere branch
NearSphereSort(st) ==
  [st EXCEPT !.sorts = Append(@, DistanceSphere(st.index) \o <<T(" ASC")>>)]

NearSphereBranch(fieldName, st) ==
  LET i == st.index
      point == Get(st.fv, "$nearSphere")
      distance == Get(st.fv, "$maxDistance")
  IN IF ~Truthy(point) THEN st
     ELSE IF Truthy(distance)
     THEN Emit(NearSphereSort(st), DistanceSphere(i) \o <<T(" <= "), P(i + 3)>>,
               <<Str(fieldName), Get(point, "longitude"), Get(point, "latitude"),
                 distanceInKM(distance)>>, 4)
     ELSE Emit(NearSphereSort(st), DistanceSphere(i),
               <<Str(fieldName), Get(point, "longitude"), Get(point, "latitude")>>, 3)

\* MBRCovers(ST_GeomFromText('Polygon($i:name)'), $i+1:name in backquotes)
MBRCovers(i) ==
  <<T("MBRCovers(ST_GeomFromText('Polygon("), P(i), T(")'), "), BQ, P(i + 1), BQ, T(")")>>

\* the polygon text pushed for a box
BoxRing(left, bottom, right, top) ==
  "(" \o Coord(left) \o " " \o Coord(bottom) \o ", "
      \o Coord(left) \o " " \o Coord(top) \o ", "
      \o Coord(top) \o " " \o Coord(right) \o ", "
      \o Coord(right) \o " " \o Coord(bottom) \o ", "
      \o Coord(left) \o " " \o Coord(bottom) \o ")"

WithinBoxBranch(fieldName, st) ==
  LET box == Get(Get(st.fv, "$within"), "$box")
  IN IF ~(Truthy(Get(st.fv, "$within")) /\ Truthy(box)) THEN st
     ELSE IF IsNullish(Elem(box, 0)) \/ IsNullish(Elem(box, 1)) THEN Throw(st, TypeError)
     ELSE Emit(st, MBRCovers(st.index),
               <<Str(BoxRing(Get(Elem(box, 0), "longitude"), Get(Elem(box, 0), "latitude"),
                             Get(Elem(box, 1), "longitude"), Get(Elem(box, 1), "latitude"))),
                 Str(fieldName)>>, 2)

\* Parse.GeoPoint._validate of the Parse SDK accepts the coordinates
GeoPointValid(latitude, longitude) ==
  /\ latitude.t = "number" /\ "n" \in DOMAIN latitude
  /\ longitude.t = "number" /\ "n" \in DOMAIN longitude
  /\ latitude.n >= -90 /\ latitude.n <= 90
  /\ longitude.n >= -180 /\ longitude.n <= 180

\* what the callback of polygon.map throws on a point (NoError: it returns)
PolygonPointError(point) ==
  IF TypeOf(point) # "object" THEN InvalidJson("bad $geoWithin value")
  ELSE IF point = Null THEN TypeError
  ELSE IF Get(point, "__type") # Str("GeoPoint") THEN InvalidJson("bad $geoWithin value")
  ELSE IF ~GeoPointValid(Get(point, "latitude"), Get(point, "longitude")) THEN TypeError
  ELSE NoError

\* the ring after: if the first and the last point differ, polygon.push(polygon[0])
CloseRing(points) ==
  LET first == points[1]
      last == points[Len(points)]
  IN IF Get(first, "latitude") # Get(last, "latitude")
        \/ Get(first, "longitude") # Get(last, "longitude")
     THEN Append(points, first)
     ELSE points

GeoWithinBranch(fieldName, st) ==
  LET polygon == Get(Get(st.fv, "$geoWithin"), "$polygon")
      tooFew == InvalidJson("bad $geoWithin value; $polygon should contain at least 3 GeoPoints")
  IN IF ~(Truthy(Get(st.fv, "$geoWithin")) /\ Truthy(polygon)) THEN st
     ELSE IF ~IsArr(polygon) THEN Throw(st, tooFew)
     ELSE IF Len(polygon.el) < 3 THEN Throw(st, tooFew)
     ELSE IF IsNullish(polygon.el[1]) \/ IsNullish(polygon.el[Len(polygon.el)])
     THEN Throw(st, TypeError)
     ELSE LET ring == CloseRing(polygon.el)
              st1 == [st EXCEPT !.fv = Set(@, "$geoWithin",
                                           Set(Get(st.fv, "$geoWithin"), "$polygon", Arr(ring)))]
              bad == {k \in 1..Len(ring) : PolygonPointError(ring[k]) # NoError}
              points == JoinStrings([k \in 1..Len(ring) |->
                          Coord(Get(ring[k], "longitude")) \o " "
                            \o Coord(Get(ring[k], "latitude"))], ", ")
          IN IF bad # {} THEN Throw(st1, PolygonPointError(ring[Least(bad)]))
             ELSE Emit(st1, MBRCovers(st.index),
                       <<Str("(" \o points \o ")"), Str(fieldName)>>, 2)

(***************************************************************************)
(* buildWhereClause: $regex, tagged values, comparators                    *)
(***************************************************************************)
\* opts.indexOf('x') >= 0, for a string or an array opts
HasX(opts) ==
  IF opts.t = "string" /\ "s" \in DOMAIN opts
  THEN \E i \in 1..Len(opts.s) : CharAt(opts.s, i) = "x"
  ELSE IsArr(opts) /\ \E i \in 1..Len(opts.el) : opts.el[i] = Str("x")

RegexBranch(fieldName, st) ==
  LET i == st.index
      regex0 == Get(st.fv, "$regex")
      opts == Get(st.fv, "$options")
  IN IF ~Truthy(regex0) THEN st
     ELSE IF ~(regex0.t = "string" /\ "s" \in DOMAIN regex0) THEN Throw(st, TypeError)
     ELSE IF Truthy(opts) /\ opts.t \notin {"string", "array"} THEN Throw(st, TypeError)
     ELSE LET regex1 == IF Truthy(opts) /\ HasX(opts)
                        THEN removeWhiteSpace(regex0.s)
                        ELSE regex0.s
              regex == IF regex1 = "" THEN "" ELSE processRegexPattern(regex1)
          IN Emit(st, <<BQ, P(i), BQ, T(" REGEXP '"), P(i + 1), T("'")>>,
                  <<Str(fieldName), Str(regex)>>, 2)

\* 'T' replaced by a space and 'Z' removed, the first occurrence of each
ReplaceFirst(s, c, by) ==
  LET hits == {i \in 1..Len(s) : CharAt(s, i) = c}
  IN IF hits = {} THEN s
     ELSE SubSeq(s, 1, Least(hits) - 1) \o by \o SubSeq(s, Least(hits) + 1, Len(s))

\* formatDateToMySQL(value) for a canonical ISO 8601 string value, which
\* new Date(value) and Parse._encode give back unchanged under iso
formatDateToMySQL(value) ==
  Str(ReplaceFirst(ReplaceFirst(value.s, "T", " "), "Z", ""))

\* toMySQLValue(value) for a non-null value
toMySQLValue(value) ==
  IF TypeOf(value) = "object"
  THEN IF Get(value, "__type") = Str("Date")
       THEN IF ~Truthy(Get(value, "iso")) THEN Null
            ELSE formatDateToMySQL(Get(value, "iso"))
       ELSE IF Get(value, "__type") = Str("File") THEN Get(value, "name")
       ELSE value
  ELSE value

PointerBranch(sch, fieldName, st) ==
  LET i == st.index
  IN IF Get(st.fv, "__type") # Str("Pointer") THEN st
     ELSE IF isArrayField(sch, fieldName)
     THEN Emit(st, <<T("JSON_CONTAINS("), BQ, P(i), BQ, T(", '"), P(i + 1), T("') = 1")>>,
               <<Str(fieldName), JSONstringify(Arr(<<st.fv>>))>>, 2)
     ELSE Emit(st, <<P(i), T(" = '"), P(i + 1), T("'")>>,
               <<Str(fieldName), Get(st.fv, "objectId")>>, 2)

DateBranch(fieldName, st) ==
  LET i == st.index
  IN IF Get(st.fv, "__type") # Str("Date") THEN st
     ELSE Emit(st, <<BQ, P(i), BQ, T(" = '"), P(i + 1), T("'")>>,
               <<Str(fieldName), toMySQLValue(st.fv)>>, 2)

GeoPointBranch(fieldName, st) ==
  LET i == st.index
  IN IF Get(st.fv, "__type") # Str("GeoPoint") THEN st
     ELSE Emit(st, <<BQ, P(i), BQ, T(" = ST_GeomFromText('POINT("), P(i + 1), T(" "),
                     P(i + 2), T(")')")>>,
               <<Str(fieldName), Get(st.fv, "longitude"), Get(st.fv, "latitude")>>, 3)

\* Object.keys(ParseToMySQLComparator), in order, and the SQL comparators
ComparatorKeys == <<"$gt", "$lt", "$gte", "$lte">>
ParseToMySQLComparator(cmp) ==
  CASE cmp = "$gt" -> ">"
    [] cmp = "$lt" -> "<"
    [] cmp = "$gte" -> ">="
    [] cmp = "$lte" -> "<="

\* the body of the forEach over the comparators
ComparatorBranch(fieldName, cmp, st) ==
  LET i == st.index
  IN IF Truthy(Get(st.fv, cmp))
     THEN Emit(st, <<BQ, P(i), BQ, T(" "), T(ParseToMySQLComparator(cmp)), T(" '"),
                     P(i + 1), T("'")>>,
               <<Str(fieldName), toMySQLValue(Get(st.fv, cmp))>>, 2)
     ELSE st

ComparatorBranches(fieldName, st) ==
  ComparatorBranch(fieldName, ComparatorKeys[4],
    ComparatorBranch(fieldName, ComparatorKeys[3],
      ComparatorBranch(fieldName, ComparatorKeys[2],
        ComparatorBranch(fieldName, ComparatorKeys[1], st))))


(***************************************************************************)
(* buildWhereClause: the loop and the function                             *)
(***************************************************************************)
\* the exception thrown for a field none of the branches added a fragment for
UnsupportedQuery(fieldValue) ==
  ParseError("OPERATION_FORBIDDEN",
             <<T("MySQL does not support this query type yet "), Inlined(StringOf(fieldValue))>>)

\* a variant of NoFragmentCheck that lets a field without a fragment pass
NoCheck(initialPatternsLength, st) == st

\* if (initialPatternsLength === patterns.length) throw ..
NoFragmentCheck(initialPatternsLength, st) ==
  IF initialPatternsLength = Len(st.patterns)
  THEN Throw(st, UnsupportedQuery(st.fv))
  ELSE st

\* reading a property of fieldValue throws when fieldValue is null or undefined
PropertyAccess(st) == IF IsNullish(st.fv) THEN Throw(st, TypeError) ELSE st

\* the if blocks of the loop body, in the order of the source
BranchOrder ==
  <<"absent", "shape", "property", "$ne", "$eq", "$in", "$all", "$exists", "$text",
    "$nearSphere", "$box", "$geoWithin", "$regex", "Pointer", "Date", "GeoPoint",
    "comparators">>

\* one if block of the loop body
Branch(sch, fieldName, name, st) ==
  CASE name = "absent" -> SkipAbsentField(sch, fieldName, st)
    [] name = "shape" -> ShapeBranch(sch, fieldName, st)
    [] name = "property" -> PropertyAccess(st)
    [] name = "$ne" -> NeBranch(sch, fieldName, st)
    [] name = "$eq" -> EqBranch(fieldName, st)
    [] name = "$in" -> InBranch(sch, fieldName, st)
    [] name = "$all" -> AllBranch(sch, fieldName, st)
    [] name = "$exists" -> ExistsBranch(fieldName, st)
    [] name = "$text" -> TextBranch(fieldName, st)
    [] name = "$nearSphere" -> NearSphereBranch(fieldName, st)
    [] name = "$box" -> WithinBoxBranch(fieldName, st)
    [] name = "$geoWithin" -> GeoWithinBranch(fieldName, st)
    [] name = "$regex" -> RegexBranch(fieldName, st)
    [] name = "Pointer" -> PointerBranch(sch, fieldName, st)
    [] name = "Date" -> DateBranch(fieldName, st)
    [] name = "GeoPoint" -> GeoPointBranch(fieldName, st)
    [] name = "comparators" -> ComparatorBranches(fieldName, st)

RECURSIVE RunBranches(_, _, _, _)
\* the if blocks from the k-th on, one after the other; none runs once the body
\* has ended (continue, throw)
RunBranches(sch, fieldName, k, st) ==
  IF k > Len(BranchOrder) \/ st.ctl # "run" THEN st
  ELSE RunBranches(sch, fieldName, k + 1, Branch(sch, fieldName, BranchOrder[k], st))

\* the branches of the loop body for one field; st0 is the state the iteration
\* starts in
FieldBranches(sch, fieldName, fieldValue, st0) ==
  RunBranches(sch, fieldName, 1, [st0 EXCEPT !.fv = fieldValue, !.ctl = "run"])

\* the end of the loop body: the check that one of the branches added a fragment
EndOfBody(initialPatternsLength, st) ==
  IF st.ctl = "run" THEN NoFragmentCheck(initialPatternsLength, st) ELSE st

\* the loop body for one field
ProcessField(sch, fieldName, fieldValue, st0) ==
  EndOfBody(Len(st0.patterns), FieldBranches(sch, fieldName, fieldValue, st0))

\* the properties for..in enumerates, in order, with their values
Entries(q) ==
  IF IsObj(q) THEN q.kv
  ELSE IF IsArr(q) THEN [i \in 1..Len(q.el) |-> KV(ToString(i - 1), q.el[i])]
  ELSE <<>>

\* q with the value of its k-th property replaced
WithEntry(q, k, v) ==
  IF IsObj(q) THEN Obj([q.kv EXCEPT ![k] = KV(q.kv[k].k, v)])
  ELSE Arr([q.el EXCEPT ![k] = v])

\* q after the iteration on its k-th property, whose value the iteration left as v
AfterIteration(q, k, v) ==
  IF v = Entries(q)[k].v THEN q ELSE WithEntry(q, k, v)

RECURSIVE FieldLoop(_, _, _, _)
RECURSIVE NextField(_, _, _, _)
\* for (const fieldName in query) from the k-th property on. The result holds the
\* compiler state and q, the query document as the loop leaves it
FieldLoop(sch, q, k, st) ==
  IF k > Len(Entries(q)) THEN [st |-> st, q |-> q]
  ELSE IF ~Truthy(sch) THEN [st |-> Throw(st, TypeError), q |-> q]
  ELSE NextField(sch, q, k, ProcessField(sch, Entries(q)[k].k, Entries(q)[k].v, st))

\* the loop after the iteration on the k-th property of q, which ended in state r
NextField(sch, q, k, r) ==
  IF r.ctl = "throw" THEN [st |-> r, q |-> AfterIteration(q, k, r.fv)]
  ELSE FieldLoop(sch, AfterIteration(q, k, r.fv), k + 1, r)

transformValue(value) ==
  IF TypeOf(value) = "object" /\ Get(value, "__type") = Str("Pointer")
  THEN Get(value, "objectId")
  ELSE value

\* values.map(transformValue) throws on a null among the values
TransformThrows(values) == \E i \in 1..Len(values) : values[i] = Null

\* a variant of Fragment that matches every row when there are no patterns
\* (what deleteObjectsByQuery puts in the place of an empty pattern)
FragmentOrTrue(st, q) ==
  [ctl |-> "return",
   pattern |-> IF Len(st.patterns) = 0 THEN <<T("TRUE")>> ELSE Join(st.patterns, " AND "),
   values |-> [i \in 1..Len(st.values) |-> transformValue(st.values[i])],
   sorts |-> st.sorts,
   err |-> NoError,
   query |-> q]

\* the fragment returned: { pattern: patterns.join(' AND '), values, sorts }
Fragment(st, q) ==
  [ctl |-> "return",
   pattern |-> Join(st.patterns, " AND "),
   values |-> [i \in 1..Len(st.values) |-> transformValue(st.values[i])],
   sorts |-> st.sorts,
   err |-> NoError,
   query |-> q]

Failure(err, q) ==
  [ctl |-> "throw", pattern |-> <<>>, values |-> <<>>, sorts |-> <<>>,
   err |-> err, query |-> q]

\* const patterns = []; let values = []; const sorts = []: the state the loop
\* starts in, at index idx
StartState(idx) ==
  [patterns |-> <<>>, values |-> <<>>, sorts |-> <<>>, index |-> idx,
   fv |-> Undef, ctl |-> "run", err |-> NoError]

\* what the function gives for the loop's result r: the exception of the loop, the
\* exception of values.map(transformValue), or the fragment
Completion(r) ==
  IF r.st.ctl = "throw" THEN Failure(r.st.err, r.q)
  ELSE IF TransformThrows(r.st.values) THEN Failure(TypeError, r.q)
  ELSE Fragment(r.st, r.q)

\* buildWhereClause({ schema, query, index }). The result is the fragment
\* returned or the exception thrown, and under query the query document as the
\* call leaves it (the call works on the caller's object)
buildWhereClause(sch, q, idx) ==
  Completion(FieldLoop(toMySQLSchema(sch), q, 1, StartState(idx)))

(***************************************************************************)
(* transformUpdate: handleDotFields and the authData keys                  *)
(***************************************************************************)
\* an update document on its way through the steps that rewrite it: ctl is
\* "throw" once a step has thrown a TypeError
Rewritten(doc) == [ctl |-> "run", doc |-> doc]
RewriteFailed(doc) == [ctl |-> "throw", doc |-> doc]

\* object[k] || {}
OrEmptyObject(object, k) == IF Truthy(Get(object, k)) THEN Get(object, k) ELSE Obj(<<>>)

RECURSIVE SetPath(_, _, _, _)
\* the while loop of handleDotFields from the i-th component on: currentObj with
\* value put under the remaining components (Undef when a component on the way
\* holds something whose properties cannot be written)
SetPath(currentObj, components, i, value) ==
  IF ~IsObj(currentObj) THEN Undef
  ELSE IF i = Len(components) THEN Set(currentObj, components[i], value)
  ELSE IF SetPath(OrEmptyObject(currentObj, components[i]), components, i + 1, value) = Undef
       THEN Undef
       ELSE Set(currentObj, components[i],
                SetPath(OrEmptyObject(currentObj, components[i]), components, i + 1, value))

\* the value handleDotFields puts under a dotted key: none for a Delete operation
DotValue(value) ==
  IF Truthy(value) /\ Get(value, "__op") = Str("Delete") THEN Undef ELSE value

\* the body of the forEach of handleDotFields for a dotted fieldName
DotField(r, fieldName) ==
  IF r.ctl = "throw" THEN r
  ELSE IF SetPath(OrEmptyObject(r.doc, SplitDots(fieldName)[1]), SplitDots(fieldName), 2,
                  DotValue(Get(r.doc, fieldName))) = Undef
       THEN RewriteFailed(Set(r.doc, SplitDots(fieldName)[1],
                              OrEmptyObject(r.doc, SplitDots(fieldName)[1])))
       ELSE Rewritten(Delete(Set(r.doc, SplitDots(fieldName)[1],
                                 SetPath(OrEmptyObject(r.doc, SplitDots(fieldName)[1]),
                                         SplitDots(fieldName), 2,
                                         DotValue(Get(r.doc, fieldName)))),
                             fieldName))

RECURSIVE DotFieldsFrom(_, _, _)
\* Object.keys(object).forEach(..) of handleDotFields from the i-th key on
DotFieldsFrom(r, keys, i) ==
  IF i > Len(keys) THEN r
  ELSE IF HasDot(keys[i]) THEN DotFieldsFrom(DotField(r, keys[i]), keys, i + 1)
  ELSE DotFieldsFrom(r, keys, i + 1)

\* Object.keys(o)
Keys(o) == IF IsObj(o) THEN [j \in DOMAIN o.kv |-> o.kv[j].k] ELSE <<>>

handleDotFields(object) == DotFieldsFrom(Rewritten(object), Keys(object), 1)

\* fieldName.match(/^_auth_data_([a-zA-Z0-9_]+)$/)
AuthDataMatch(fieldName) ==
  /\ StartsWith(fieldName, "_auth_data_")
  /\ Len(fieldName) > Len("_auth_data_")
  /\ \A j \in (Len("_auth_data_") + 1)..Len(fieldName) :
       CharAt(fieldName, j) \in Alphanumerics \cup {"_"}

\* authDataMatch[1]
Provider(fieldName) == SubSeq(fieldName, Len("_auth_data_") + 1, Len(fieldName))

\* the body of the first loop of transformUpdate for a key that matches
AuthDataField(r, fieldName) ==
  IF r.ctl = "throw" THEN r
  ELSE IF ~IsObj(OrEmptyObject(Delete(r.doc, fieldName), "authData"))
       THEN RewriteFailed(Delete(r.doc, fieldName))
       ELSE Rewritten(Set(Delete(r.doc, fieldName), "authData",
                          Set(OrEmptyObject(Delete(r.doc, fieldName), "authData"),
                              Provider(fieldName), Get(r.doc, fieldName))))

RECURSIVE AuthDataFrom(_, _, _)
\* the first loop of transformUpdate, over the keys the update has when the
\* loop starts, from the i-th on
AuthDataFrom(r, keys, i) ==
  IF i > Len(keys) THEN r
  ELSE IF AuthDataMatch(keys[i]) THEN AuthDataFrom(AuthDataField(r, keys[i]), keys, i + 1)
  ELSE AuthDataFrom(r, keys, i + 1)

\* the update document when the second loop starts
ResolveAuthData(r) == AuthDataFrom(r, Keys(r.doc), 1)

\* originalUpdate[k]: the shallow copy taken before handleDotFields shares its
\* objects with the update document
OriginalValue(given_update, doc, k) ==
  IF IsObj(Get(given_update, k)) /\ ~HasDot(k) /\ IsObj(Get(doc, k)) THEN Get(doc, k)
  ELSE Get(given_update, k)

(***************************************************************************)
(* transformUpdate: the branches of the second loop. The running state     *)
(* holds updatePatterns (patterns), values, index, the update document     *)
(* (doc), how the loop ended (ctl: "run", "throw", "reject") and the error *)
(***************************************************************************)
\* the field name between backquotes, as a value
QuotedName(fieldName) == [t |-> "string", quoted |-> fieldName]

\* the assignment of a quoted value, and of a bare one
QuotedAssignment(i) == <<BQ, P(i), BQ, T(" = '"), P(i + 1), T("'")>>
BareAssignment(i) == <<BQ, P(i), BQ, T(" = "), P(i + 1)>>

\* generate(jsonb, key, value) with the placeholders at k and k + 1 for key and value
generate(fieldName, k) ==
  <<T("JSON_SET(COALESCE("), BQ, Ident(fieldName), BQ, T(", '{}'), '$."), P(k),
    T("', CAST('"), P(k + 1), T("' AS JSON))")>>

\* the value pushed for a provider
ProviderValue(value) ==
  IF Truthy(value)
  THEN IF Get(value, "__op") = Str("Delete") THEN Null ELSE JSONstringify(value)
  ELSE value

RECURSIVE AuthDataReduce(_, _, _, _)
\* Object.keys(fieldValue).reduce(..) from the j-th key on; acc holds the string
\* the callback returned last, the values pushed and index
AuthDataReduce(fieldName, fieldValue, j, acc) ==
  IF j > Len(Keys(fieldValue)) THEN acc
  ELSE AuthDataReduce(fieldName, fieldValue, j + 1,
         [str |-> generate(fieldName, acc.index),
          values |-> acc.values \o <<Str(Keys(fieldValue)[j]),
                                     ProviderValue(Get(fieldValue, Keys(fieldValue)[j]))>>,
          index |-> acc.index + 2])

\* the authData branch once the reduce has ended with r
AuthDataAssignment(st, r) ==
  [st EXCEPT !.patterns = Append(@, <<P(st.index), T(" = ")>> \o r.str),
             !.values = @ \o r.values,
             !.index = r.index]

\* the authData branch
AuthDataBranch(fieldName, fieldValue, st) ==
  AuthDataAssignment(st,
    AuthDataReduce(fieldName, fieldValue, 1,
      [str |-> <<P(st.index)>>, values |-> <<QuotedName(fieldName)>>,
       index |-> st.index + 1]))

\* the value pushed for an element of the objects of Remove and AddUnique
ListedObject(obj) == IF TypeOf(obj) = "object" THEN JSONstringify(obj) ELSE obj

RemovePattern(i) ==
  <<BQ, P(i), BQ, T(" = JSON_REMOVE("), BQ, P(i), BQ, T(", REPLACE(JSON_SEARCH(COALESCE("),
    BQ, P(i), BQ, T(",'[]'), 'one', '"), P(i + 1), T("'),'\"',''))")>>

AddUniquePattern(i) ==
  <<BQ, P(i), BQ, T(" = if (JSON_CONTAINS("), BQ, P(i), BQ, T(", '"), P(i + 1),
    T("') = 0, JSON_MERGE("), BQ, P(i), BQ, T(",'"), P(i + 1), T("'),"), BQ, P(i), BQ, T(")")>>

RECURSIVE ObjectsMap(_, _, _, _, _)
\* fieldValue.objects.map(..) of the Remove (remove) or AddUnique branch, from
\* the j-th object on
ObjectsMap(fieldName, objects, remove, j, st) ==
  IF j > Len(objects) THEN st
  ELSE ObjectsMap(fieldName, objects, remove, j + 1,
         Emit(st, IF remove THEN RemovePattern(st.index) ELSE AddUniquePattern(st.index),
              <<Str(fieldName), ListedObject(objects[j])>>, 2))

\* the Remove and AddUnique branches
ObjectsBranch(fieldName, fieldValue, remove, st) ==
  IF ~IsArr(Get(fieldValue, "objects")) THEN Throw(st, TypeError)
  ELSE ObjectsMap(fieldName, Get(fieldValue, "objects").el, remove, 1, st)

\* the updatedAt / finishedAt branch
DateFieldBranch(fieldName, fieldValue, st) ==
  IF fieldValue.t = "string" /\ "s" \in DOMAIN fieldValue
  THEN Emit(st, QuotedAssignment(st.index),
            <<Str(fieldName), formatDateToMySQL(fieldValue)>>, 2)
  ELSE Throw(st, TypeError)

(***************************************************************************)
(* transformUpdate: the branch of a field of type Object                   *)
(***************************************************************************)
\* originalUpdate[k].__op
OriginalOp(original, doc, k) == Get(OriginalValue(original, doc, k), "__op")

\* k is a two-component path under fieldName
IsSubKey(k, fieldName) ==
  Len(SplitDots(k)) = 2 /\ SplitDots(k)[1] = fieldName

\* the second components of the keys among keys
SecondComponents(keys) == [j \in DOMAIN keys |-> SplitDots(keys[j])[2]]

keysToSet(original, doc) ==
  SelectSeq(Keys(original),
            LAMBDA k : ~Truthy(OriginalOp(original, doc, k)) /\ ~HasDot(k) /\ k # "updatedAt")

keysToReplace(original, doc, fieldName) ==
  SecondComponents(SelectSeq(Keys(original),
    LAMBDA k : ~Truthy(OriginalOp(original, doc, k)) /\ IsSubKey(k, fieldName)))

keysToIncrement(original, doc, fieldName) ==
  SecondComponents(SelectSeq(Keys(original),
    LAMBDA k : OriginalOp(original, doc, k) = Str("Increment") /\ IsSubKey(k, fieldName)))

keysToDelete(original, doc, fieldName) ==
  SecondComponents(SelectSeq(Keys(original),
    LAMBDA k : OriginalOp(original, doc, k) = Str("Delete") /\ IsSubKey(k, fieldName)))

\* keys.forEach(key => delete fieldValue[key]), from the j-th key on
RECURSIVE DeleteKeys(_, _, _)
DeleteKeys(fieldValue, keys, j) ==
  IF j > Len(keys) THEN fieldValue
  ELSE DeleteKeys(Delete(fieldValue, keys[j]), keys, j + 1)

\* setPattern as the template literal renders it: the array joined by commas
setPattern(fieldValue, n) ==
  Join([j \in 1..n |-> <<T("CAST('"), Inlined(JSONstringify(fieldValue)), T("' AS JSON)")>>],
       ",")

replacePattern(fieldValue, keys) ==
  Join([j \in DOMAIN keys |->
          IF TypeOf(Get(fieldValue, keys[j])) = "object"
          THEN <<T("'$."), Ident(keys[j]), T("', CAST('"),
                 Inlined(JSONstringify(Get(fieldValue, keys[j]))), T("' AS JSON)")>>
          ELSE <<T("'$."), Ident(keys[j]), T("', '"),
                 Inlined(StringOf(Get(fieldValue, keys[j]))), T("'")>>],
       " || ")

incrementPatterns(fieldValue, keys, i) ==
  Join([j \in DOMAIN keys |->
          <<T("'$."), Ident(keys[j]), T("', COALESCE("), BQ, P(i), BQ, T("->>'$."),
            Ident(keys[j]), T("','0') + "),
            Inlined(StringOf(Get(Get(fieldValue, keys[j]), "amount")))>>],
       " || ")

\* keysToDelete.reduce((p, c, i) => .., ', '): what the callback returned last
deletePatterns(keys, i) ==
  IF Len(keys) = 0 THEN <<T(", ")>>
  ELSE <<T("'$."), P(i + 1 + (Len(keys) - 1)), T("'")>>

\* the patterns the branch pushes, in the order it pushes them
ObjectPatterns(fieldValue, sets, replaces, increments, deletes, i) ==
  (IF Len(deletes) > 0
   THEN <<<<BQ, P(i), BQ, T(" = JSON_REMOVE("), BQ, P(i), BQ, T(", ")>>
            \o deletePatterns(deletes, i) \o <<T(")")>>>>
   ELSE <<>>)
  \o (IF Len(increments) > 0
      THEN <<<<BQ, P(i), BQ, T(" = JSON_SET(COALESCE("), BQ, P(i), BQ, T(", '{}'), ")>>
               \o incrementPatterns(DeleteKeys(fieldValue, replaces, 1), increments, i)
               \o <<T(")")>>>>
      ELSE <<>>)
  \o (IF Len(replaces) > 0
      THEN <<<<BQ, P(i), BQ, T(" = JSON_SET(COALESCE("), BQ, P(i), BQ, T(", '{}'), ")>>
               \o replacePattern(fieldValue, replaces) \o <<T(")")>>>>
      ELSE <<>>)
  \o (IF Len(sets) > 0
      THEN <<<<BQ, P(i), BQ, T(" = ")>> \o setPattern(fieldValue, Len(sets))>>
      ELSE <<>>)

\* the branch for the key lists given: the patterns, the values and the field
\* value without the keys replaced and incremented
ObjectAssignments(fieldName, fieldValue, sets, replaces, increments, deletes, st) ==
  [st EXCEPT
     !.patterns = @ \o ObjectPatterns(fieldValue, sets, replaces, increments, deletes,
                                     st.index),
     !.values = @ \o <<Str(fieldName)>> \o [j \in DOMAIN deletes |-> Str(deletes[j])]
                  \o <<JSONstringify(DeleteKeys(DeleteKeys(fieldValue, replaces, 1),
                                                increments, 1))>>,
     !.index = @ + 2 + Len(deletes),
     !.doc = Set(@, fieldName,
                 DeleteKeys(DeleteKeys(fieldValue, replaces, 1), increments, 1))]

\* the branch of a field of type Object; original is originalUpdate
ObjectBranch(original, fieldName, fieldValue, st) ==
  IF \E j \in DOMAIN Keys(original) :
       IsNullish(OriginalValue(original, st.doc, Keys(original)[j]))
  THEN Throw(st, TypeError)
  ELSE IF \E j \in DOMAIN keysToIncrement(original, st.doc, fieldName) :
            IsNullish(Get(fieldValue, keysToIncrement(original, st.doc, fieldName)[j]))
  THEN Throw(st, TypeError)
  ELSE ObjectAssignments(fieldName, fieldValue,
                         keysToSet(original, st.doc),
                         keysToReplace(original, st.doc, fieldName),
                         keysToIncrement(original, st.doc, fieldName),
                         keysToDelete(original, st.doc, fieldName), st)

(***************************************************************************)
(* transformUpdate: the loop and the function                              *)
(***************************************************************************)
\* a variant of the Increment branch that assigns the amount
IncrementAssigns(fieldName, fieldValue, st) ==
  Emit(st, BareAssignment(st.index), <<Str(fieldName), Get(fieldValue, "amount")>>, 2)

\* the pattern of the Increment branch
IncrementPattern(i) ==
  <<BQ, P(i), BQ, T(" = COALESCE("), BQ, P(i), BQ, T(", 0) + "), P(i + 1)>>

\* the Increment branch
IncrementBranch(fieldName, fieldValue, st) ==
  Emit(st, IncrementPattern(st.index), <<Str(fieldName), Get(fieldValue, "amount")>>, 2)

\* the exception of the last else
UnsupportedUpdate(fieldValue) ==
  ParseError("OPERATION_FORBIDDEN",
             <<T("MySQL doesn't support update "), Inlined(JSONstringify(fieldValue)),
               T(" yet")>>)

\* return Promise.reject(..)
Reject(st, err) == [st EXCEPT !.ctl = "reject", !.err = err]

\* the if / else-if chain of the second loop
UpdateField(sch, original, fieldName, fieldValue, st) ==
  IF fieldValue = Null
  THEN Emit(st, <<P(st.index), T(" = NULL")>>, <<Str(fieldName)>>, 1)
  ELSE IF fieldValue = Undef
  THEN \* Object.keys(undefined) and undefined.__op both throw
       Throw(st, TypeError)
  ELSE IF fieldName = "authData" THEN AuthDataBranch(fieldName, fieldValue, st)
  ELSE IF Get(fieldValue, "__op") = Str("Increment")
  THEN IncrementBranch(fieldName, fieldValue, st)
  ELSE IF Get(fieldValue, "__op") = Str("Add")
  THEN Emit(st, <<BQ, P(st.index), BQ, T("= JSON_ARRAY_INSERT(COALESCE("), BQ, P(st.index),
                  BQ, T(", '[]'), CONCAT('$[',JSON_LENGTH("), BQ, P(st.index), BQ,
                  T("),']'), '"), P(st.index + 1), T("')")>>,
            <<Str(fieldName), JSONstringify(Get(fieldValue, "objects"))>>, 2)
  ELSE IF Get(fieldValue, "__op") = Str("Delete")
  THEN Emit(st, BareAssignment(st.index), <<Str(fieldName), Null>>, 2)
  ELSE IF Get(fieldValue, "__op") = Str("Remove")
  THEN ObjectsBranch(fieldName, fieldValue, TRUE, st)
  ELSE IF Get(fieldValue, "__op") = Str("AddUnique")
  THEN ObjectsBranch(fieldName, fieldValue, FALSE, st)
  ELSE IF fieldName = "updatedAt" \/ fieldName = "finishedAt"
  THEN DateFieldBranch(fieldName, fieldValue, st)
  ELSE IF TypeOf(fieldValue) = "string"
  THEN Emit(st, QuotedAssignment(st.index), <<Str(fieldName), fieldValue>>, 2)
  ELSE IF TypeOf(fieldValue) = "boolean"
  THEN Emit(st, BareAssignment(st.index), <<Str(fieldName), fieldValue>>, 2)
  ELSE IF Get(fieldValue, "__type") = Str("Pointer")
  THEN Emit(st, QuotedAssignment(st.index),
            <<Str(fieldName), Get(fieldValue, "objectId")>>, 2)
  ELSE IF Get(fieldValue, "__type") = Str("Date")
  THEN Emit(st, QuotedAssignment(st.index), <<Str(fieldName), toMySQLValue(fieldValue)>>, 2)
  ELSE IF fieldValue.t = "date"
  THEN Emit(st, QuotedAssignment(st.index), <<Str(fieldName), fieldValue>>, 2)
  ELSE IF Get(fieldValue, "__type") = Str("File")
  THEN Emit(st, QuotedAssignment(st.index), <<Str(fieldName), toMySQLValue(fieldValue)>>, 2)
  ELSE IF Get(fieldValue, "__type") = Str("GeoPoint")
  THEN Emit(st, <<BQ, P(st.index), BQ, T(" = POINT("), P(st.index + 1), T(", "),
                  P(st.index + 2), T(")")>>,
            <<Str(fieldName), Get(fieldValue, "longitude"), Get(fieldValue, "latitude")>>, 3)
  ELSE IF Get(fieldValue, "__type") = Str("Relation") THEN st
  ELSE IF TypeOf(fieldValue) = "number"
  THEN Emit(st, BareAssignment(st.index), <<Str(fieldName), fieldValue>>, 2)
  ELSE IF /\ TypeOf(fieldValue) = "object"
          /\ Truthy(SchemaField(sch, fieldName))
          /\ Get(SchemaField(sch, fieldName), "type") = Str("Object")
  THEN IF IsObj(fieldValue) THEN ObjectBranch(original, fieldName, fieldValue, st)
       ELSE Throw(st, TypeError)
  ELSE IF /\ IsArr(fieldValue)
          /\ Truthy(SchemaField(sch, fieldName))
          /\ Get(SchemaField(sch, fieldName), "type") = Str("Array")
  THEN Emit(st, <<P(st.index), T(" = '"), P(st.index + 1), T("'")>>,
            <<Str(fieldName), JSONstringify(fieldValue)>>, 2)
  ELSE Reject(st, UnsupportedUpdate(fieldValue))

RECURSIVE UpdateLoop(_, _, _, _, _)
\* for (const fieldName in update) of the second loop, over keys, from the i-th on
UpdateLoop(sch, original, keys, i, st) ==
  IF i > Len(keys) \/ st.ctl # "run" THEN st
  ELSE UpdateLoop(sch, original, keys, i + 1,
                  UpdateField(sch, original, keys[i], Get(st.doc, keys[i]), st))

\* the state the second loop starts in: index = 2, and a TypeError of the
\* rewriting steps is the exception of the call
UpdateStart(r) ==
  [patterns |-> <<>>, values |-> <<>>, index |-> 2, doc |-> r.doc,
   ctl |-> r.ctl, err |-> IF r.ctl = "throw" THEN TypeError ELSE NoError]

\* what the call gives for the state st the second loop ended in
UpdateResult(st) ==
  [ctl |-> IF st.ctl = "run" THEN "return" ELSE st.ctl,
   pattern |-> IF st.ctl = "run" THEN Join(st.patterns, ",") ELSE <<>>,
   index |-> st.index,
   values |-> IF st.ctl = "run" THEN st.values ELSE <<>>,
   err |-> st.err,
   update |-> st.doc]

\* the second loop on the update document as the rewriting steps r left it
CompileUpdate(sch, original, r) ==
  UpdateResult(UpdateLoop(sch, original, Keys(r.doc), 1, UpdateStart(r)))

\* transformUpdate(schema, update): what is returned (ctl "return"), the
\* exception thrown ("throw") or the rejection ("reject"), and under update the
\* update document as the call leaves it
transformUpdate(sch, update_doc) ==
  CompileUpdate(sch, update_doc, ResolveAuthData(handleDotFields(update_doc)))

(***************************************************************************)
(* The storage adapter: the operations that send a statement to the        *)
(* database. An operation is given the replies of the database to the      *)
(* statements it sends, in order; it gives the statements sent (issued)    *)
(* and how its promise is settled. The documents are those of a class      *)
(* whose fields are of type String: fields hold a string or null           *)
(***************************************************************************)
MySQLRelationDoesNotExistError == "ER_NO_SUCH_TABLE"
PostgresRelationDoesNotExistError == "42P01"
PostgresUniqueIndexViolationError == "23505"

\* the promise of an operation, fulfilled or rejected
Resolved(value) == [kind |-> "resolve", value |-> value]
Rejected(error) == [kind |-> "reject", error |-> error]

\* what an operation has done: the statements sent and its promise
Done(statements, promise) == [issued |-> statements, settled |-> promise]

\* a statement as it is given to database.query
Query(qs, values) == [qs |-> qs, values |-> values]

\* the error database.query rejects with
DriverError(reply) == [code |-> reply.code, message |-> <<>>]

RECURSIVE WhereFields(_, _, _)
\* the loop of the adapter's buildWhereClause over the fields from the k-th on,
\* for fields that hold null or a string; st holds patterns, values and index
WhereFields(q, k, st) ==
  IF k > Len(q.kv) THEN st
  ELSE IF q.kv[k].v = Null
  THEN WhereFields(q, k + 1,
         Emit(st, <<BQ, P(st.index), BQ, T(" IS NULL")>>, <<Str(q.kv[k].k)>>, 1))
  ELSE WhereFields(q, k + 1,
         Emit(st, <<P(st.index), T(" = '"), P(st.index + 1), T("'")>>,
              <<Str(q.kv[k].k), q.kv[k].v>>, 2))

\* the adapter's buildWhereClause({ schema, query, index })
WhereClause(q, idx) ==
  [pattern |-> Join(WhereFields(q, 1, [patterns |-> <<>>, values |-> <<>>,
                                       index |-> idx]).patterns, " AND "),
   values |-> WhereFields(q, 1, [patterns |-> <<>>, values |-> <<>>,
                                 index |-> idx]).values,
   sorts |-> <<>>]

\* const wherePattern = where.pattern.length > 0 ? .. : ''
wherePattern(where) ==
  IF Len(where.pattern) > 0 THEN <<T("WHERE ")>> \o where.pattern ELSE <<>>

\* the objects find gives for the rows of the database: null fields are deleted
FoundObject(object) == Obj(SelectSeq(object.kv, LAMBDA e : e.v # Null))

\* find(className, schema, query, { skip, limit, sort, keys }) without sort and keys
find(className, q, options, reply) ==
  Done(<<Query(<<T("SELECT "), T("*"), T(" FROM "), BQ, P(1), BQ, T(" ")>>
                 \o wherePattern(WhereClause(q, 2)) \o <<T(" "), T(" ")>>
                 \o (IF options.limit # Undef
                     THEN <<T("LIMIT "), P(Len(WhereClause(q, 2).values) + 2)>> ELSE <<>>)
                 \o <<T(" ")>>
                 \o (IF options.skip # Undef
                     THEN <<T("OFFSET "),
                            P(Len(WhereClause(q, 2).values) + 2
                                + (IF options.limit # Undef THEN 1 ELSE 0))>>
                     ELSE <<>>),
               <<Str(className)>> \o WhereClause(q, 2).values
                 \o (IF options.limit # Undef THEN <<options.limit>> ELSE <<>>)
                 \o (IF options.skip # Undef THEN <<options.skip>> ELSE <<>>))>>,
       IF reply.ok
       THEN Resolved(Arr([j \in DOMAIN reply.rows |-> FoundObject(reply.rows[j])]))
       ELSE IF reply.code = MySQLRelationDoesNotExistError THEN Resolved(Arr(<<>>))
       ELSE Rejected(DriverError(reply)))

\* count(className, schema, query)
count(className, q, reply) ==
  Done(<<Query(<<T("SELECT count(*) FROM "), P(1), T(" ")>>
                 \o wherePattern(WhereClause(q, 2)),
               <<Str(className)>> \o WhereClause(q, 2).values)>>,
       IF reply.ok THEN Resolved(Num(Len(reply.rows)))
       ELSE IF reply.code = PostgresRelationDoesNotExistError THEN Resolved(Num(0))
       ELSE Rejected(DriverError(reply)))

\* deleteObjectsByQuery(className, schema, query)
deleteObjectsByQuery(className, q, reply) ==
  Done(<<Query(<<T("DELETE FROM "), P(1), T(" WHERE ")>>
                 \o (IF Len(Keys(q)) = 0 THEN <<T("TRUE")>> ELSE WhereClause(q, 2).pattern),
               <<Str(className)>> \o WhereClause(q, 2).values)>>,
       IF reply.ok
       THEN IF Len(reply.rows) = 0
            THEN Rejected(ParseError("OBJECT_NOT_FOUND", <<T("Object not found.")>>))
            ELSE Resolved(Num(Len(reply.rows)))
       ELSE Rejected(DriverError(reply)))

\* the columns of createObject: the fields that are not null
Columns(object) == Keys(FoundObject(object))

\* createObject(className, schema, object) for an object of String fields
createObject(className, object, reply) ==
  Done(<<Query(<<T("INSERT INTO "), BQ, P(1), BQ, T(" (")>>
                 \o Join([j \in DOMAIN Columns(object) |-> <<BQ, P(j + 1), BQ>>], ",")
                 \o <<T(") VALUES (")>>
                 \o Join([j \in DOMAIN Columns(object) |->
                            <<T("'"), P(j + 1 + Len(Columns(object))), T("'")>>], ",")
                 \o <<T(")")>>,
               <<Str(className)>>
                 \o [j \in DOMAIN Columns(object) |-> Str(Columns(object)[j])]
                 \o [j \in DOMAIN Columns(object) |-> Get(object, Columns(object)[j])])>>,
       IF reply.ok THEN Resolved(Obj(<<KV("ops", Arr(<<object>>))>>))
       ELSE IF reply.code = PostgresUniqueIndexViolationError
       THEN Rejected(ParseError("DUPLICATE_VALUE",
              <<T("A duplicate value for a field with unique values was provided")>>))
       ELSE Rejected(DriverError(reply)))

RECURSIVE SetFields(_, _, _)
\* the second loop of updateObjectsByQuery over the fields from the k-th on,
\* for fields that hold null, a string, or an object of a field the class
\* does not have; st holds patterns, values, index, ctl and the rejection
SetFields(upd, k, st) ==
  IF k > Len(upd.kv) \/ st.ctl # "run" THEN st
  ELSE IF upd.kv[k].v = Null
  THEN SetFields(upd, k + 1, Emit(st, <<P(st.index), T(" = NULL")>>, <<Str(upd.kv[k].k)>>, 1))
  ELSE IF TypeOf(upd.kv[k].v) = "string"
  THEN SetFields(upd, k + 1,
         Emit(st, <<BQ, P(st.index), BQ, T(" = '"), P(st.index + 1), T("'")>>,
              <<Str(upd.kv[k].k), upd.kv[k].v>>, 2))
  ELSE [st EXCEPT !.ctl = "reject",
                  !.err = ParseError("OPERATION_FORBIDDEN",
                            <<T("Postgres doesn't support update "),
                              Inlined(JSONstringify(upd.kv[k].v)), T(" yet")>>)]

\* what the database did with the statement of an update
Affected(reply) == Obj(<<KV("affectedRows", Num(Len(reply.rows)))>>)

\* the statement of updateObjectsByQuery once the SET part is compiled to st
UpdateStatement(className, q, st) ==
  Query(<<T("UPDATE "), BQ, P(1), BQ, T(" SET ")>> \o Join(st.patterns, ",")
          \o <<T(" WHERE ")>> \o WhereClause(q, st.index).pattern,
        <<Str(className)>> \o st.values \o WhereClause(q, st.index).values)

\* updateObjectsByQuery once the SET part is compiled to st
UpdateSent(className, q, st, reply) ==
  IF st.ctl = "reject"
  THEN Done(<<>>, Rejected(st.err))
  ELSE Done(<<UpdateStatement(className, q, st)>>,
            IF reply.ok
            THEN IF Len(reply.rows) > 0 THEN Resolved(Affected(reply)) ELSE Resolved(Null)
            ELSE \* the catch logs the error and returns nothing
                 Resolved(Undef))

\* updateObjectsByQuery(className, schema, query, update)
updateObjectsByQuery(className, q, upd, reply) ==
  UpdateSent(className, q,
             SetFields(upd, 1, [patterns |-> <<>>, values |-> <<>>, index |-> 2,
                                ctl |-> "run", err |-> NoError]),
             reply)

\* findOneAndUpdate(className, schema, query, update)
findOneAndUpdate(className, q, upd, reply) == updateObjectsByQuery(className, q, upd, reply)

RECURSIVE Assign(_, _, _)
\* Object.assign(target, source) from the k-th key of source on
Assign(target, source, k) ==
  IF k > Len(source.kv) THEN target
  ELSE Assign(Set(target, source.kv[k].k, source.kv[k].v), source, k + 1)

\* upsertOneObject once createObject has ended as created
Upserted(className, q, upd, created, reply) ==
  IF created.settled.kind = "reject" /\ created.settled.error.code = "DUPLICATE_VALUE"
  THEN Done(created.issued \o findOneAndUpdate(className, q, upd, reply).issued,
            findOneAndUpdate(className, q, upd, reply).settled)
  ELSE created

\* upsertOneObject(className, schema, query, update); replies are those to the
\* insert and to the update
upsertOneObject(className, q, upd, replies) ==
  Upserted(className, q, upd,
           createObject(className, Assign(Assign(Obj(<<>>), q, 1), upd, 1), replies[1]),
           replies[2])

(***************************************************************************)
(* The inputs                                                              *)
(***************************************************************************)
\* the largest start index
MaxStart == 2
\* the longest $in / $nin list
MaxList == 3
\* the most fields of a several-field query
MaxFields == 2
\* the most branches of a $or / $and
MaxBranches == 2
\* the most compilations of one query object
MaxCalls == 2

\* a one-property object
Op(k, v) == Obj(<<KV(k, v)>>)
Op2(k1, v1, k2, v2) == Obj(<<KV(k1, v1), KV(k2, v2)>>)

GeoPoint(latitude, longitude) ==
  Obj(<<KV("__type", Str("GeoPoint")), KV("latitude", Num(latitude)),
        KV("longitude", Num(longitude))>>)
Pointer(className, objectId) ==
  Obj(<<KV("__type", Str("Pointer")), KV("className", Str(className)),
        KV("objectId", Str(objectId))>>)
DateValue(iso) == Obj(<<KV("__type", Str("Date")), KV("iso", Str(iso))>>)

\* a class with a String field, an Array-of-String field and an Array field
ThingSchema ==
  Obj(<<KV("className", Str("Thing")),
        KV("fields", Obj(<<KV("s", StringField), KV("arr", ArrayOfStringField),
                           KV("tags", ArrayField)>>))>>)
\* a schema without a field map
BareSchema == Obj(<<KV("className", Str("_User"))>>)
Schemas == {ThingSchema, BareSchema, Undef}

\* field names: declared ones, an implicit one, one absent from the schema, a dotted path
FieldNames == {"s", "arr", "tags", "_rperm", "ghost", "o.k"}

ListElems == {Null, Str("x"), Str("y")}
Lists == UNION {[1..n -> ListElems] : n \in 0..MaxList}

Literals == {Null, Str("x"), Str("y"), Num(5), Num(0), Bool(TRUE)}

OperatorShapes ==
  {Op("$ne", v) : v \in {Null, Str("x"), Num(5)}}
    \cup {Op("$eq", v) : v \in {Str("x"), Num(0)}}
    \cup {Op("$in", Arr(l)) : l \in Lists}
    \cup {Op("$nin", Arr(l)) : l \in Lists}
    \cup {Op("$gt", Num(5)), Op("$lt", Num(0)), Op2("$gte", Num(5), "$lte", Num(7))}
    \cup {Op2("$ne", Null, "$gt", Num(5)), Op2("$ne", Str("x"), "$gt", Num(5)),
          Op2("$in", Arr(<<Str("x")>>), "$nin", Arr(<<Str("y")>>)),
          Op2("$nin", Arr(<<Str("y")>>), "$in", Arr(<<Str("x")>>))}
    \cup {Op("$exists", Bool(TRUE)), Op("$exists", Bool(FALSE)),
          Op2("$exists", Bool(FALSE), "$gt", Num(5))}
    \cup {Op("$all", Arr(<<Str("x"), Str("y")>>))}
    \cup {Op("$unknownOp", Num(1)), Obj(<<>>)}

TextShapes ==
  {Op("$text", Op("$search", Op("$term", Str("x")))),
   Op("$text", Op("$search", Str("x"))),
   Op("$text", Op("$search", Obj(<<>>))),
   Op("$text", Op("$search", Op2("$term", Str("x"), "$caseSensitive", Bool(TRUE)))),
   Op("$text", Op("$search", Op2("$term", Str("x"), "$diacriticSensitive", Bool(FALSE))))}

GeoShapes ==
  {Op("$nearSphere", GeoPoint(10, 20)),
   Op2("$nearSphere", GeoPoint(10, 20), "$maxDistance", Num(2)),
   Op("$within", Op("$box", Arr(<<GeoPoint(1, 2), GeoPoint(3, 4)>>))),
   Op("$geoWithin", Op("$polygon", Arr(<<GeoPoint(0, 0), GeoPoint(0, 1), GeoPoint(1, 1)>>))),
   Op("$geoWithin", Op("$polygon",
      Arr(<<GeoPoint(0, 0), GeoPoint(0, 1), GeoPoint(1, 1), GeoPoint(0, 0)>>))),
   Op("$geoWithin", Op("$polygon", Arr(<<GeoPoint(0, 0), GeoPoint(0, 1)>>))),
   Op("$geoWithin", Op("$polygon", Arr(<<GeoPoint(0, 0), GeoPoint(95, 1), GeoPoint(1, 1)>>)))}

RegexShapes ==
  {Op("$regex", Str("^\\Qa.b\\E")),
   Op("$regex", Str("it's")),
   Op2("$regex", Str("a b #c"), "$options", Str("x"))}

TaggedShapes ==
  {Pointer("Thing", "id1"), DateValue("2020-01-02T03:04:05.678Z"), GeoPoint(10, 20)}

\* the comparison operators and scalar operands, the falsy ones among them
ComparisonOperators == {"$eq", "$gt", "$lt", "$gte", "$lte"}
ScalarOperands == {Str("x"), Str(""), Num(5), Num(0), Bool(TRUE), Bool(FALSE)}
ComparisonShapes == {Op(op, v) : op \in ComparisonOperators, v \in ScalarOperands}

FieldValues ==
  Literals \cup OperatorShapes \cup TextShapes \cup GeoShapes \cup RegexShapes
    \cup TaggedShapes \cup ComparisonShapes

\* the queries of one field
SingleFieldQueries == {Op(f, v) : f \in FieldNames, v \in FieldValues}

\* the fields the queries of several fields are made of, each of another name
CoreFields ==
  {KV("s", Str("x")), KV("arr", Op("$in", Arr(<<Null, Str("x")>>))),
   KV("ghost", Op("$exists", Bool(FALSE))), KV("tags", Null),
   KV("n", Op("$gt", Num(5))), KV("u", Op("$unknownOp", Num(1))),
   KV("o.k", Str("y")),
   KV("arr", Op("$in", Arr(<<Str("x"), Str("y")>>))),
   KV("tags", Op("$nin", Arr(<<Str("x"), Str("y")>>)))}

\* the fields of seq have names of their own
IsInjective(seq) == \A a, b \in DOMAIN seq : a # b => seq[a].k # seq[b].k

SeveralFieldQueries ==
  {Obj(kv) : kv \in {s \in UNION {[1..n -> CoreFields] : n \in 2..MaxFields} : IsInjective(s)}}

\* the sub-queries of the $or / $and queries
SubQueries ==
  {Obj(<<>>), Op("a", Num(1)), Op("b", Num(2)),
   Op("ghost", Op("$exists", Bool(FALSE))),
   Op("arr", Op("$in", Arr(<<Null, Str("x")>>))),
   Op("b", Str("y")),
   Op("u", Op("$unknownOp", Num(1))),
   Op("loc", Op("$nearSphere", GeoPoint(10, 20)))}

BranchLists == UNION {[1..n -> SubQueries] : n \in 0..MaxBranches}
Prefixes == {<<>>, <<KV("s", Str("x"))>>}
Suffixes == {<<>>, <<KV("n", Op("$gt", Num(5)))>>}

BooleanQueries ==
  {Obj(pre \o <<KV(op, Arr(bs))>> \o suf) :
     pre \in Prefixes, op \in {"$or", "$and"}, bs \in BranchLists, suf \in Suffixes}

Queries ==
  {Obj(<<>>)} \cup SingleFieldQueries \cup SeveralFieldQueries \cup BooleanQueries

(***************************************************************************)
(* The specification: a caller builds a query document and compiles it,    *)
(* possibly more than once                                                 *)
(***************************************************************************)
\* what a call gives its caller: the fragment returned or the exception thrown
Outcome(r) ==
  IF r.ctl = "return"
  THEN [kind |-> "fragment", pattern |-> r.pattern, values |-> r.values, sorts |-> r.sorts]
  ELSE [kind |-> "error", error |-> r.err]

\* no schema is converted
NoSchema ==
  /\ declared = Undef
  /\ stored = Undef
  /\ internalised = FALSE
  /\ external = Undef

\* no pattern is given to the regex literalizer
NoRegex == regexp = "" /\ processed = Undef /\ literalized = Undef

\* no chain of calls is followed
NoCall == routine = "" /\ document = Undef /\ pattern_text = "" /\ nesting = 0

\* connect() has not been called
NoConnect ==
  connectionPromise = 0 /\ database = 0 /\ connections = <<>> /\ returned = 0

\* no operation of the storage adapter is requested
NoRequest == request = Undef /\ issued = <<>> /\ replied = <<>> /\ settled = Undef

\* no update is transformed
NoUpdate == update = Undef /\ requested = Undef /\ statement = Undef /\ rows = <<>>

Init ==
  /\ schema \in Schemas
  /\ query \in Queries
  /\ index \in 1..MaxStart
  /\ results = <<>>
  /\ given = query
  /\ NoRegex
  /\ NoSchema
  /\ NoUpdate
  /\ NoCall
  /\ NoRequest
  /\ NoConnect

\* buildWhereClause({ schema, query, index })
Compile ==
  /\ Len(results) < MaxCalls
  /\ LET r == buildWhereClause(schema, query, index)
     IN /\ results' = Append(results, Outcome(r))
        /\ query' = r.query
  /\ schema' = toMySQLSchema(schema)
  /\ UNCHANGED <<index, given, regexVars, schemaVars, updateVars, callVars, adapterVars, connectVars>>

Next == Compile

Spec == Init /\ [][Next]_vars

(***************************************************************************)
(* The specification of the regex literalizer: a pattern is given to       *)
(* processRegexPattern and to literalizeRegexPart                          *)
(***************************************************************************)
\* the most atoms of a pattern body
MaxAtoms == 3

\* what pattern bodies are made of: a letter, a dot, a quote, the markers of a
\* literal span and a line terminator
Atoms == {"a", ".", "'", "\\Q", "\\E", "\n"}

RECURSIVE Concat(_)
Concat(ss) == IF Len(ss) = 0 THEN "" ELSE ss[1] \o Concat(Tail(ss))

PatternBodies == {Concat(ss) : ss \in UNION {[1..n -> Atoms] : n \in 0..MaxAtoms}}

\* the patterns: a body, after ^ or not, before $ or not
RegexPatterns ==
  {pre \o body \o post : pre \in {"", "^"}, body \in PatternBodies, post \in {"", "$"}}

\* no query is compiled
NoQuery ==
  /\ schema = Undef
  /\ query = Obj(<<>>)
  /\ index = 1
  /\ results = <<>>
  /\ given = query

RegexInit ==
  /\ regexp \in RegexPatterns
  /\ processed = Undef
  /\ literalized = Undef
  /\ NoQuery
  /\ NoSchema
  /\ NoUpdate
  /\ NoCall
  /\ NoRequest
  /\ NoConnect

\* processRegexPattern(regexp)
ProcessPattern ==
  /\ processed = Undef
  /\ processed' = Str(processRegexPattern(regexp))
  /\ UNCHANGED <<regexp, literalized, queryVars, schemaVars, updateVars, callVars, adapterVars, connectVars>>

\* literalizeRegexPart(regexp)
LiteralizePart ==
  /\ literalized = Undef
  /\ literalized' = Str(literalizeRegexPart(regexp))
  /\ UNCHANGED <<regexp, processed, queryVars, schemaVars, updateVars, callVars, adapterVars, connectVars>>

RegexNext == ProcessPattern \/ LiteralizePart

RegexSpec == RegexInit /\ [][RegexNext]_vars

(***************************************************************************)
(* The specification of the schema conversions: a class schema is made     *)
(* internal, external, or internal and then external                       *)
(***************************************************************************)
\* the field maps of the declared schemas (Undef: the schema has no field map)
FieldMaps ==
  {Undef} \cup {Obj(kv) : kv \in {<<>>, <<KV("s", StringField)>>,
                                  <<KV("tags", ArrayField)>>,
                                  <<KV("s", StringField), KV("tags", ArrayField)>>}}

\* the permissions of the declared schemas (Undef: no classLevelPermissions)
AdminOnly == Obj(<<KV("role:admin", Bool(TRUE))>>)
PermissionMaps ==
  {Undef, Obj(<<>>), Op("find", AdminOnly), Op2("find", AdminOnly, "update", AdminOnly),
   Op2("delete", Obj(<<>>), "get", Obj(<<KV("*", Bool(TRUE))>>))}

ClassNames == {"Thing", "_User", "_Role"}

\* {className, fields, classLevelPermissions}, without the keys that are not given
DeclaredSchema(className, fields, clps) ==
  Obj(<<KV("className", Str(className))>>
        \o (IF fields = Undef THEN <<>> ELSE <<KV("fields", fields)>>)
        \o (IF clps = Undef THEN <<>> ELSE <<KV("classLevelPermissions", clps)>>))

DeclaredSchemas ==
  {DeclaredSchema(c, f, p) : c \in ClassNames, f \in FieldMaps, p \in PermissionMaps}

SchemaInit ==
  /\ declared \in DeclaredSchemas
  /\ stored = declared
  /\ internalised = FALSE
  /\ external = Undef
  /\ NoQuery
  /\ NoRegex
  /\ NoUpdate
  /\ NoCall
  /\ NoRequest
  /\ NoConnect

\* toMySQLSchema(stored)
MakeInternal ==
  /\ ~internalised
  /\ external = Undef
  /\ stored' = toMySQLSchema(stored)
  /\ internalised' = TRUE
  /\ UNCHANGED <<declared, external, queryVars, regexVars, updateVars, callVars, adapterVars, connectVars>>

\* toParseSchema(stored)
MakeExternal ==
  /\ external = Undef
  /\ external' = [kind |-> toParseSchema(stored).ctl, value |-> toParseSchema(stored).value]
  /\ stored' = toParseSchema(stored).schema
  /\ UNCHANGED <<declared, internalised, queryVars, regexVars, updateVars, callVars, adapterVars, connectVars>>

SchemaNext == MakeInternal \/ MakeExternal

SchemaSpec == SchemaInit /\ [][SchemaNext]_vars

(***************************************************************************)
(* The specification of transformUpdate: a caller builds an update         *)
(* document for an object of a class and has it transformed                *)
(***************************************************************************)
\* the most fields of an update document
MaxUpdateFields == 2

\* the class of the objects updated
UpdateSchema ==
  Obj(<<KV("className", Str("_User")),
        KV("fields", Obj(<<KV("s", Op("type", Str("String"))),
                           KV("n", Op("type", Str("Number"))),
                           KV("b", Op("type", Str("Boolean"))),
                           KV("tags", Op("type", Str("Array"))),
                           KV("o", Op("type", Str("Object"))),
                           KV("p", Op("type", Str("Pointer"))),
                           KV("d", Op("type", Str("Date"))),
                           KV("f", Op("type", Str("File"))),
                           KV("loc", Op("type", Str("GeoPoint"))),
                           KV("r", Op("type", Str("Relation"))),
                           KV("authData", Op("type", Str("Object")))>>))>>)

Operation(op) == Op("__op", Str(op))
Increment(amount) == Op2("__op", Str("Increment"), "amount", Num(amount))
ListOperation(op, objects) == Op2("__op", Str(op), "objects", Arr(objects))
FileValue(name) == Op2("__type", Str("File"), "name", Str(name))

\* the authData of one provider
Credentials(id) == Op("id", Str(id))

\* the fields an update document is built from: plain values of every type,
\* operations, dotted paths into the Object field, authData whole and by
\* provider, and a field the class does not have
UpdateEntries ==
  {KV("s", Str("x")), KV("s", Null), KV("s", Operation("Delete")),
   KV("n", Num(5)), KV("n", Increment(1)), KV("n", Increment(5)), KV("n", Increment(0)),
   KV("b", Bool(TRUE)),
   KV("tags", Arr(<<Str("x")>>)),
   KV("tags", ListOperation("Add", <<Str("x")>>)),
   KV("tags", ListOperation("Remove", <<Str("x"), Op("k", Num(1))>>)),
   KV("tags", ListOperation("AddUnique", <<Str("x"), Op("k", Num(1))>>)),
   KV("o", Op("a", Num(1))),
   KV("o.a", Num(1)), KV("o.a", Op("k", Num(1))),
   KV("o.b", Increment(1)), KV("o.c", Operation("Delete")),
   KV("authData", Obj(<<>>)),
   KV("authData", Op("facebook", Credentials("1"))),
   KV("authData", Op2("facebook", Credentials("1"), "twitter", Credentials("2"))),
   KV("authData", Op2("facebook", Operation("Delete"), "twitter", Null)),
   KV("_auth_data_facebook", Credentials("1")),
   KV("_auth_data_twitter", Credentials("2")),
   KV("updatedAt", Str("2020-01-01T00:00:00.000Z")),
   KV("p", Pointer("Thing", "id1")), KV("d", DateValue("2020-01-01T00:00:00.000Z")),
   KV("f", FileValue("a.txt")), KV("loc", GeoPoint(10, 20)),
   KV("r", Op2("__type", Str("Relation"), "className", Str("Thing"))),
   KV("ghost", Op("a", Num(1))), KV("u", Undef)}

\* the update documents: up to MaxUpdateFields entries under distinct keys
Updates ==
  {Obj(kv) : kv \in {e \in UNION {[1..n -> UpdateEntries] : n \in 1..MaxUpdateFields} :
                       \A a, b \in DOMAIN e : a # b => e[a].k # e[b].k}}

\* the most times a statement is applied to the row
MaxApplications == 2

\* the values the column has before the statement is applied
ColumnValues == {Null, Num(3)}

UpdateInit ==
  /\ update \in Updates
  /\ requested = update
  /\ statement = Undef
  /\ rows \in {<<v>> : v \in ColumnValues}
  /\ NoCall
  /\ NoRequest
  /\ NoConnect
  /\ NoQuery
  /\ NoRegex
  /\ NoSchema

\* transformUpdate(UpdateSchema, update)
TransformUpdate ==
  /\ statement = Undef
  /\ statement' = transformUpdate(UpdateSchema, update)
  /\ update' = transformUpdate(UpdateSchema, update).update
  /\ UNCHANGED <<requested, rows, queryVars, regexVars, schemaVars, callVars, adapterVars, connectVars>>

\* COALESCE(value, default)
Coalesce(value, default) == IF value = Null THEN default ELSE value

\* the database applies the statement of an Increment of the column to the
\* row: the column becomes COALESCE(column, 0) + amount
ApplyIncrement ==
  /\ statement # Undef
  /\ statement.ctl = "return"
  /\ statement.pattern = IncrementPattern(2)
  /\ Len(rows) <= MaxApplications
  /\ rows' = Append(rows, Num(Coalesce(rows[Len(rows)], Num(0)).n + statement.values[2].n))
  /\ UNCHANGED <<update, requested, statement, queryVars, regexVars, schemaVars, callVars, adapterVars, connectVars>>

UpdateNext == TransformUpdate \/ ApplyIncrement

UpdateSpec == UpdateInit /\ [][UpdateNext]_vars

(***************************************************************************)
(* The specification of the recursion of the compilers: from a call of     *)
(* buildWhereClause or processRegexPattern, one recursive call after the   *)
(* other                                                                   *)
(***************************************************************************)
\* the most recursive calls followed
MaxNesting == 4

\* query documents with $or / $and inside $or / $and
NestedQueries ==
  BooleanQueries
    \cup {Obj(<<KV(op, Arr(<<q, Op("s", Str("x"))>>))>>) :
            op \in {"$or", "$and"},
            q \in {Obj(<<KV(o, Arr(bs))>>) : o \in {"$or", "$and"}, bs \in BranchLists}}

CallInit ==
  /\ \/ routine = "buildWhereClause" /\ document \in NestedQueries /\ pattern_text = ""
     \/ routine = "processRegexPattern" /\ document = Undef /\ pattern_text \in RegexPatterns
  /\ nesting = 0
  /\ NoQuery
  /\ NoRegex
  /\ NoSchema
  /\ NoUpdate
  /\ NoRequest
  /\ NoConnect

\* the query of the recursive call the forEach makes for the k-th element
subQuery(fieldValue, k) == fieldValue.el[k]

\* a variant of prefix that keeps the string whole
WholeString(s, p) == s

\* s.substr(0, result.index) for a match at position p (positions count from 1)
prefix(s, p) == SubSeq(s, 1, p - 1)

\* buildWhereClause calls itself for a sub-query of an $or / $and field
CompileSubQuery ==
  /\ routine = "buildWhereClause"
  /\ nesting < MaxNesting
  /\ IsObj(document)
  /\ \E j \in DOMAIN document.kv :
       /\ document.kv[j].k \in {"$or", "$and"}
       /\ IsArr(document.kv[j].v)
       /\ \E k \in DOMAIN document.kv[j].v.el :
            document' = subQuery(document.kv[j].v, k)
  /\ nesting' = nesting + 1
  /\ UNCHANGED <<routine, pattern_text, queryVars, regexVars, schemaVars, updateVars, adapterVars, connectVars>>

\* processRegexPattern calls literalizeRegexPart
LiteralizeBody ==
  /\ routine = "processRegexPattern"
  /\ routine' = "literalizeRegexPart"
  /\ pattern_text' = IF StartsWith(pattern_text, "^") THEN SubSeq(pattern_text, 2, Len(pattern_text))
             ELSE IF EndsWith(pattern_text, "$") THEN SubSeq(pattern_text, 1, Len(pattern_text) - 1)
             ELSE pattern_text
  /\ UNCHANGED <<document, nesting, queryVars, regexVars, schemaVars, updateVars, adapterVars, connectVars>>

\* literalizeRegexPart calls itself for the prefix before the literal text
LiteralizePrefix ==
  /\ routine = "literalizeRegexPart"
  /\ nesting < MaxNesting
  /\ Matcher1(pattern_text) # {} \/ Matcher2(pattern_text) # {}
  /\ pattern_text' = IF Matcher1(pattern_text) # {} THEN prefix(pattern_text, Least(Matcher1(pattern_text)))
             ELSE prefix(pattern_text, Least(Matcher2(pattern_text)))
  /\ nesting' = nesting + 1
  /\ UNCHANGED <<routine, document, queryVars, regexVars, schemaVars, updateVars, adapterVars, connectVars>>

CallNext == CompileSubQuery \/ LiteralizeBody \/ LiteralizePrefix

CallSpec == CallInit /\ [][CallNext]_vars

(***************************************************************************)
(* The specification of the storage adapter: a caller requests an          *)
(* operation, the database replies to each statement sent, and the         *)
(* operation's promise is settled                                          *)
(***************************************************************************)
\* the most rows a reply of the database holds or reports
MaxRows == 2

\* the documents of queries, updates and rows
Documents ==
  {Obj(<<>>), Op("s", Str("x")), Op("s", Null), Op2("s", Str("x"), "t", Str("y"))}
UpdateDocuments == {Op("t", Str("y")), Op("t", Null), Op("ghost", Op("a", Num(1)))}
FindOptions == [limit : {Undef, Num(1)}, skip : {Undef, Num(1)}]

\* the codes database.query and connect reject with: those of the MySQL
\* server for a missing table and a duplicate entry, and one of the connection
DriverCodes == {"ER_NO_SUCH_TABLE", "ER_DUP_ENTRY", "ECONNREFUSED"}

\* the replies of the database: rows found or affected, or an error
Replies ==
  {[ok |-> TRUE, rows |-> [j \in 1..n |-> Op2("s", Str("x"), "t", Null)]] : n \in 0..MaxRows}
    \cup {[ok |-> FALSE, code |-> c] : c \in DriverCodes}

Requests ==
  {[op |-> "find", query |-> q, options |-> o] : q \in Documents, o \in FindOptions}
    \cup {[op |-> op, query |-> q] : op \in {"count", "deleteObjectsByQuery"},
                                     q \in Documents}
    \cup {[op |-> "createObject", object |-> d] : d \in Documents \ {Obj(<<>>)}}
    \cup {[op |-> op, query |-> q, update |-> u] :
            op \in {"updateObjectsByQuery", "upsertOneObject"},
            q \in Documents, u \in UpdateDocuments \ {Op("ghost", Op("a", Num(1)))}}
    \cup {[op |-> "updateObjectsByQuery", query |-> Op("s", Str("x")),
           update |-> Op("ghost", Op("a", Num(1)))]}

AdapterInit ==
  /\ request \in Requests
  /\ issued = <<>>
  /\ replied = <<>>
  /\ settled = Undef
  /\ NoQuery
  /\ NoRegex
  /\ NoSchema
  /\ NoUpdate
  /\ NoCall
  /\ NoConnect

\* the operation ends as done; the database has replied to the statements sent
Settle(done, replies) ==
  /\ issued' = done.issued
  /\ replied' = SubSeq(replies, 1, Len(done.issued))
  /\ settled' = done.settled
  /\ UNCHANGED <<request, queryVars, regexVars, schemaVars, updateVars, callVars,
               connectVars>>

Find ==
  /\ settled = Undef /\ request.op = "find"
  /\ \E reply \in Replies : Settle(find("Thing", request.query, request.options, reply), <<reply>>)

Count ==
  /\ settled = Undef /\ request.op = "count"
  /\ \E reply \in Replies : Settle(count("Thing", request.query, reply), <<reply>>)

DeleteObjects ==
  /\ settled = Undef /\ request.op = "deleteObjectsByQuery"
  /\ \E reply \in Replies : Settle(deleteObjectsByQuery("Thing", request.query, reply), <<reply>>)

CreateObject ==
  /\ settled = Undef /\ request.op = "createObject"
  /\ \E reply \in Replies : Settle(createObject("Thing", request.object, reply), <<reply>>)

UpdateObjects ==
  /\ settled = Undef /\ request.op = "updateObjectsByQuery"
  /\ \E reply \in Replies :
       Settle(updateObjectsByQuery("Thing", request.query, request.update, reply),
              <<reply>>)

UpsertOneObject ==
  /\ settled = Undef /\ request.op = "upsertOneObject"
  /\ \E inserted, updated \in Replies :
       Settle(upsertOneObject("Thing", request.query, request.update,
                              <<inserted, updated>>),
              <<inserted, updated>>)

AdapterNext ==
  Find \/ Count \/ DeleteObjects \/ CreateObject \/ UpdateObjects \/ UpsertOneObject

AdapterSpec == AdapterInit /\ [][AdapterNext]_vars

(***************************************************************************)
(* The specification of connect(): callers call connect(), the promise of  *)
(* mysql.createConnection settles, and the connections emit their events.  *)
(* Each step is one callback, which runs to its end                        *)
(***************************************************************************)
\* the most calls of mysql.createConnection
MaxConnections == 3

ConnectInit ==
  /\ NoConnect
  /\ NoQuery
  /\ NoRegex
  /\ NoSchema
  /\ NoUpdate
  /\ NoCall
  /\ NoRequest

Others == <<queryVars, regexVars, schemaVars, updateVars, callVars, adapterVars>>

\* connect(): the cached promise if there is one, else a new attempt
Connect ==
  /\ IF connectionPromise # 0
     THEN /\ returned' = connectionPromise
          /\ UNCHANGED <<connectionPromise, connections>>
     ELSE /\ Len(connections) < MaxConnections
          /\ connections' = Append(connections, "pending")
          /\ connectionPromise' = Len(connections) + 1
          /\ returned' = Len(connections) + 1
  /\ UNCHANGED <<database, Others>>

\* createConnection resolves with a connection: the handlers of 'error' and
\* 'close' are registered and this.database is set
Established ==
  \E c \in DOMAIN connections :
    /\ connections[c] = "pending"
    /\ connections' = [connections EXCEPT ![c] = "open"]
    /\ database' = c
    /\ UNCHANGED <<connectionPromise, returned, Others>>

\* createConnection resolves with no connection: if (!database)
NoDatabase ==
  \E c \in DOMAIN connections :
    /\ connections[c] = "pending"
    /\ connections' = [connections EXCEPT ![c] = "empty"]
    /\ connectionPromise' = 0
    /\ UNCHANGED <<database, returned, Others>>

\* createConnection rejects: the catch
ConnectFailed ==
  \E c \in DOMAIN connections :
    /\ connections[c] = "pending"
    /\ connections' = [connections EXCEPT ![c] = "failed"]
    /\ connectionPromise' = 0
    /\ UNCHANGED <<database, returned, Others>>

\* handleShutdown(): this.database.end()
HandleShutdown ==
  /\ database # 0
  /\ connections[database] = "open"
  /\ connections' = [connections EXCEPT ![database] = "ending"]
  /\ UNCHANGED <<connectionPromise, database, returned, Others>>

\* connection c emits 'error': it is no longer usable, and is yet to close
EmitError ==
  \E c \in DOMAIN connections :
    /\ connections[c] \in {"open", "ending"}
    /\ connections' = [connections EXCEPT ![c] = "errored"]
    /\ connectionPromise' = 0
    /\ UNCHANGED <<database, returned, Others>>

\* connection c emits 'close'
EmitClose ==
  \E c \in DOMAIN connections :
    /\ connections[c] \in {"open", "ending", "errored"}
    /\ connections' = [connections EXCEPT ![c] = "closed"]
    /\ connectionPromise' = 0
    /\ UNCHANGED <<database, returned, Others>>

ConnectNext ==
  \/ Connect
  \/ Established
  \/ NoDatabase
  \/ ConnectFailed
  \/ HandleShutdown
  \/ EmitError
  \/ EmitClose

ConnectSpec == ConnectInit /\ [][ConnectNext]_vars

(***************************************************************************)
(* Properties of buildWhereClause                                          *)
(***************************************************************************)
\* the first call has been made
Compiled == Len(results) >= 1

\* the fragment a call returns for no fields
EmptyFragment == [kind |-> "fragment", pattern |-> <<>>, values |-> <<>>, sorts |-> <<>>]

\* the placeholder indices occurring in a pattern
Placeholders(pattern) ==
  {pattern[j].ph : j \in {n \in DOMAIN pattern : "ph" \in DOMAIN pattern[n]}}

\* the placeholder indices of a pattern in the order of their occurrence
PlaceholderSeq(pattern) ==
  LET phs == SelectSeq(pattern, LAMBDA tok : "ph" \in DOMAIN tok)
  IN [j \in 1..Len(phs) |-> phs[j].ph]

\* the fragments a returned pattern is made of, counted by its ' AND ' joints
FragmentCount(pattern) ==
  IF Len(pattern) = 0 THEN 0
  ELSE 1 + Cardinality({j \in DOMAIN pattern : pattern[j] = T(" AND ")})

\* C1: for a non-empty query compiled without error the placeholder indices of
\* the returned pattern are exactly index, index + 1, .., index + n - 1, n the
\* number of returned values (no gap, none below index, none from index + n on)
C1_PlaceholdersMatchValues ==
  \A c \in DOMAIN results :
    (results[c].kind = "fragment" /\ given # Obj(<<>>)) =>
      Placeholders(results[c].pattern) = index..(index + Len(results[c].values) - 1)

RECURSIVE SwapLiterals(_)
\* the query document with the string literals "x" and "y" exchanged: the same
\* field names, operator keys and shapes, other literal scalars
SwapLiterals(v) ==
  IF v = Str("x") THEN Str("y")
  ELSE IF v = Str("y") THEN Str("x")
  ELSE IF IsObj(v) THEN Obj([j \in DOMAIN v.kv |-> KV(v.kv[j].k, SwapLiterals(v.kv[j].v))])
  ELSE IF IsArr(v) THEN Arr([j \in DOMAIN v.el |-> SwapLiterals(v.el[j])])
  ELSE v

\* C2: two queries of the same field names, operator keys and shapes that differ
\* only in literal scalars compile, with the same schema and start index, to the
\* same pattern text: no literal is inlined into the text
C2_PatternIndependentOfLiterals ==
  (Compiled /\ results[1].kind = "fragment") =>
    LET other == buildWhereClause(schema, SwapLiterals(given), index)
    IN other.ctl = "return" /\ other.pattern = results[1].pattern

\* C3: a call leaves the query document as it was, whether it returns or fails,
\* and so a second compilation of the same object gives what the first gave
C3_QueryNotModified ==
  /\ query = given
  /\ Len(results) >= 2 => results[2] = results[1]

\* the position of the top-level $or / $and field of a query, 0 if there is none
BooleanPosition(q) ==
  LET ps == {j \in DOMAIN q.kv : q.kv[j].k \in {"$or", "$and"} /\ IsArr(q.kv[j].v)}
  IN IF ps = {} THEN 0 ELSE CHOOSE j \in ps : \A n \in ps : j <= n

RECURSIVE BranchResults(_, _, _, _)
\* the branches from the k-th on, each compiled on its own, starting at start
\* plus the number of values the branches before it returned
BranchResults(sch, branches, k, start) ==
  IF k > Len(branches) THEN <<>>
  ELSE LET r == buildWhereClause(sch, branches[k], start)
       IN <<r>> \o BranchResults(sch, branches, k + 1, start + Len(r.values))

RECURSIVE ConcatValues(_)
ConcatValues(rs) == IF Len(rs) = 0 THEN <<>> ELSE rs[1].values \o ConcatValues(Tail(rs))

\* the non-empty patterns among patterns
NonEmpty(pats) == SelectSeq(pats, LAMBDA pat : Len(pat) > 0)

\* C4: a $or / $and field reached at running index i: branch k is compiled
\* starting at i plus the number of values of the branches before it, the
\* fragment is the non-empty branch texts in document order joined by ' OR '
\* (' AND ') inside one pair of parentheses, the values are the branch values
\* in the same order, and the fields after it start at i plus the number of
\* values of all the branches
C4_BooleanBranches ==
  (Compiled /\ results[1].kind = "fragment" /\ BooleanPosition(given) > 0) =>
    LET p == BooleanPosition(given)
        before == buildWhereClause(schema, Obj(SubSeq(given.kv, 1, p - 1)), index)
        i == index + Len(before.values)
        branches == BranchResults(schema, given.kv[p].v.el, 1, i)
        sep == IF given.kv[p].k = "$or" THEN " OR " ELSE " AND "
        fragment == <<T("(")>>
                      \o Join(NonEmpty([k \in DOMAIN branches |-> branches[k].pattern]), sep)
                      \o <<T(")")>>
        total == Len(ConcatValues(branches))
        after == buildWhereClause(schema, Obj(SubSeq(given.kv, p + 1, Len(given.kv))),
                                  i + total)
    IN /\ results[1].pattern
            = Join(NonEmpty(<<before.pattern, fragment, after.pattern>>), " AND ")
       /\ results[1].values = before.values \o ConcatValues(branches) \o after.values

\* {$or: [{a: 1}, {b: 2}]} has given the 4 values a, 1, b, 2 and the
\* placeholders index .. index + 3
C4_Witness ==
  /\ Compiled
  /\ given = Op("$or", Arr(<<Op("a", Num(1)), Op("b", Num(2))>>))
  /\ results[1].kind = "fragment"
  /\ results[1].values = <<Str("a"), Num(1), Str("b"), Num(2)>>
  /\ PlaceholderSeq(results[1].pattern) = <<index, index + 1, index + 2, index + 3>>

\* C5: the empty query document compiles to the empty pattern, no values and no
\* sorts, whatever the schema and the start index
C5_EmptyQuery ==
  given = Obj(<<>>) => \A c \in DOMAIN results : results[c] = EmptyFragment

\* the empty query has been compiled without a schema at the largest start index
C5_Witness ==
  /\ Compiled
  /\ given = Obj(<<>>)
  /\ schema = Undef
  /\ index = MaxStart
  /\ results[1] = EmptyFragment

\* the field is absent from the internal schema and its value has $exists false
IsSkipped(sch, field) ==
  /\ ~Truthy(SchemaField(toMySQLSchema(sch), field.k))
  /\ Truthy(field.v)
  /\ Get(field.v, "$exists") = Bool(FALSE)

\* the query without the fields that are skipped
WithoutSkipped(sch, q) == Obj(SelectSeq(q.kv, LAMBDA field : ~IsSkipped(sch, field)))

\* C6: a field absent from the internal schema whose value has $exists false
\* is skipped: the call gives what it gives for the query without that field
\* (no text, no values, no index advance, no error), and a query of such
\* fields only gives the empty pattern
C6_AbsentFieldSkipped ==
  (Compiled /\ schema # Undef /\ WithoutSkipped(schema, given) # given) =>
    /\ results[1] = Outcome(buildWhereClause(schema, WithoutSkipped(schema, given), index))
    /\ WithoutSkipped(schema, given) = Obj(<<>>) => results[1] = EmptyFragment

\* a skipped field after a compiled one: only the first has given text and values
C6_Witness ==
  /\ Compiled
  /\ given = Obj(<<KV("s", Str("x")), KV("ghost", Op("$exists", Bool(FALSE)))>>)
  /\ schema # Undef
  /\ results[1].kind = "fragment"
  /\ results[1].values = <<Str("s"), Str("x")>>
  /\ FragmentCount(results[1].pattern) = 1

C8_EmptyNinNoConstraint ==
  (Compiled /\ schema # Undef /\ Len(given.kv) = 1
     /\ given.kv[1].v = Op("$nin", Arr(<<>>))) =>
    results[1] = EmptyFragment

\* C9: $in on an Array-of-String field with a list that holds null: a
\* NULL-tolerant disjunction, the values are the field and the non-null elements
\* in list order, and the placeholder of the j-th containment test is the one of
\* the j-th non-null element
C9_InWithNulls ==
  (Compiled /\ schema # Undef /\ Len(given.kv) = 1) =>
    LET f == given.kv[1].k
        v == given.kv[1].v
        sch == toMySQLSchema(schema)
        list == Get(v, "$in")
    IN (/\ IsObj(v) /\ Len(v.kv) = 1 /\ IsArr(list)
        /\ isArrayField(sch, f) /\ hasStringContents(sch, f)
        /\ \E j \in DOMAIN list.el : list.el[j] = Null) =>
         LET nonNull == SelectSeq(list.el, LAMBDA e : e # Null)
             phs == PlaceholderSeq(results[1].pattern)
         IN /\ results[1].kind = "fragment"
            /\ results[1].values = <<Str(f)>> \o nonNull
            /\ \E j \in DOMAIN results[1].pattern :
                 results[1].pattern[j] = T(" IS NULL OR ")
            /\ SelectSeq(phs, LAMBDA ph : ph # index)
                 = [j \in 1..Len(nonNull) |-> index + j]

\* the operator keys of the operator objects of C10
SeveralOperators(v) ==
  /\ IsObj(v)
  /\ Len(v.kv) >= 2
  /\ \A j \in DOMAIN v.kv : v.kv[j].k \in {"$ne", "$gt", "$in", "$nin"}

\* C10: an operator object of several recognised operator keys on a declared
\* field: the pattern has one fragment for each operator key present
C10_EveryOperatorCompiled ==
  (Compiled /\ schema # Undef /\ Len(given.kv) = 1) =>
    LET f == given.kv[1].k
        v == given.kv[1].v
    IN (SeveralOperators(v) /\ ~HasDot(f) /\ results[1].kind = "fragment") =>
         FragmentCount(results[1].pattern) = Len(v.kv)

\* C11: an operator object {op: v} with op one of $eq, $gt, $lt, $gte, $lte and
\* a scalar operand v (0, false and the empty string among them) compiles to one
\* comparison fragment with that comparator, the values are the field and v and
\* the index advances by 2
C11_ComparisonCompiled ==
  (Compiled /\ schema # Undef /\ Len(given.kv) = 1) =>
    LET f == given.kv[1].k
        v == given.kv[1].v
    IN (v \in ComparisonShapes /\ ~HasDot(f)) =>
         /\ results[1].kind = "fragment"
         /\ results[1].values = <<Str(f), v.kv[1].v>>
         /\ FragmentCount(results[1].pattern) = 1
         /\ Placeholders(results[1].pattern) = {index, index + 1}
         /\ \E j \in DOMAIN results[1].pattern :
              results[1].pattern[j] = IF v.kv[1].k = "$eq" THEN T(" = '")
                                      ELSE T(ParseToMySQLComparator(v.kv[1].k))

RECURSIVE NearSphereCount(_)
\* the $nearSphere constraints of a query document, the ones in the branches of
\* its $or / $and fields included
NearSphereCount(q) ==
  IF ~IsObj(q) THEN 0
  ELSE LET n[j \in 0..Len(q.kv)] ==
             IF j = 0 THEN 0
             ELSE n[j - 1]
                    + (IF q.kv[j].k \in {"$or", "$and"} /\ IsArr(q.kv[j].v)
                       THEN LET m[b \in 0..Len(q.kv[j].v.el)] ==
                                  IF b = 0 THEN 0
                                  ELSE m[b - 1] + NearSphereCount(q.kv[j].v.el[b])
                            IN m[Len(q.kv[j].v.el)]
                       ELSE IF Truthy(Get(q.kv[j].v, "$nearSphere")) THEN 1 ELSE 0)
       IN n[Len(q.kv)]

\* the token sequence part occurs in pattern
Occurs(part, pattern) ==
  \E p \in 1..(Len(pattern) - Len(part) + 1) :
    SubSeq(pattern, p, p + Len(part) - 1) = part

\* C12: the sorts the top-level call returns hold one ascending distance
\* expression for each $nearSphere constraint of the query, those in the
\* branches of $or / $and included, each with the placeholder indices of a
\* distance fragment of the pattern; a $maxDistance d is bound as d * 6371 * 1000
C12_NearSphereSorts ==
  (Compiled /\ results[1].kind = "fragment") =>
    /\ Len(results[1].sorts) = NearSphereCount(given)
    /\ \A j \in DOMAIN results[1].sorts :
         \E i \in Placeholders(results[1].pattern) :
           /\ results[1].sorts[j] = DistanceSphere(i) \o <<T(" ASC")>>
           /\ Occurs(DistanceSphere(i), results[1].pattern)
    /\ (Len(given.kv) = 1 /\ ~HasDot(given.kv[1].k)
          /\ Truthy(Get(given.kv[1].v, "$nearSphere"))
          /\ Truthy(Get(given.kv[1].v, "$maxDistance"))) =>
         results[1].values[4]
           = Num(Get(given.kv[1].v, "$maxDistance").n * 6371 * 1000)

\* the closed ring of the rectangle's corners, longitude before latitude
RectangleRing(left, bottom, right, top) ==
  "(" \o ToString(left) \o " " \o ToString(bottom) \o ", "
      \o ToString(left) \o " " \o ToString(top) \o ", "
      \o ToString(right) \o " " \o ToString(top) \o ", "
      \o ToString(right) \o " " \o ToString(bottom) \o ", "
      \o ToString(left) \o " " \o ToString(bottom) \o ")"

\* C13: for $within.$box with the corners box[0] = (left, bottom) and
\* box[1] = (right, top) the polygon value is the closed ring (left bottom),
\* (left top), (right top), (right bottom), (left bottom)
C13_BoxRing ==
  (Compiled /\ schema # Undef /\ Len(given.kv) = 1 /\ ~HasDot(given.kv[1].k)) =>
    LET box == Get(Get(given.kv[1].v, "$within"), "$box")
    IN (IsArr(box) /\ Len(box.el) = 2) =>
         /\ results[1].kind = "fragment"
         /\ results[1].values[1]
              = Str(RectangleRing(Get(box.el[1], "longitude").n, Get(box.el[1], "latitude").n,
                                  Get(box.el[2], "longitude").n, Get(box.el[2], "latitude").n))

(***************************************************************************)
(* Properties of the regex literalizer                                     *)
(***************************************************************************)
\* the pattern without its leading ^
Unanchored(s) == IF StartsWith(s, "^") THEN SubSeq(s, 2, Len(s)) ELSE s

\* the leading anchor, the trailing anchor and what is between them
LeadingAnchor(s) == IF StartsWith(s, "^") THEN "^" ELSE ""
TrailingAnchor(s) == IF EndsWith(Unanchored(s), "$") THEN "$" ELSE ""
PatternBody(s) ==
  SubSeq(Unanchored(s), 1, Len(Unanchored(s)) - Len(TrailingAnchor(s)))

HasBackslash(s) == \E j \in 1..Len(s) : CharAt(s, j) = "\\"

\* s is one literal span: \Q, characters that belong to no marker, \E
IsSingleSpan(s) ==
  /\ Len(s) >= 4
  /\ StartsWith(s, "\\Q")
  /\ EndsWith(s, "\\E")
  /\ ~HasBackslash(SubSeq(s, 3, Len(s) - 2))

\* the characters between the markers of a literal span
SpanText(s) == SubSeq(s, 3, Len(s) - 2)

\* a character of a span made literal: itself if alphanumeric, two quotes for a
\* quote, a backslash and the character otherwise
Escaped(c) ==
  IF c \in Alphanumerics THEN c ELSE IF c = "'" THEN "''" ELSE "\\" \o c

RECURSIVE EscapedText(_)
EscapedText(s) ==
  IF Len(s) = 0 THEN "" ELSE Escaped(CharAt(s, 1)) \o EscapedText(SubSeq(s, 2, Len(s)))

\* C14: for a pattern that is one \Q...\E span, after ^ or not,
\* processRegexPattern gives the characters of the span in order, each made
\* literal, after the ^ if there is one; the markers are gone
C14_SpanLiteralized ==
  (processed # Undef /\ IsSingleSpan(Unanchored(regexp))) =>
    processed = Str(LeadingAnchor(regexp) \o EscapedText(SpanText(Unanchored(regexp))))

\* s ends with a $ that no backslash escapes
EndsWithAnchor(s) ==
  /\ EndsWith(s, "$")
  /\ Len(s) >= 2 => CharAt(s, Len(s) - 1) # "\\"

\* C15: processRegexPattern keeps a leading ^ and a trailing $ of the pattern
\* as unescaped anchors at the start and the end of its output, for a body of
\* plain text or one \Q...\E span, also with both anchors at once; a pattern
\* with neither gets no anchor
C15_AnchorsPreserved ==
  (processed # Undef
     /\ (~HasBackslash(PatternBody(regexp)) \/ IsSingleSpan(PatternBody(regexp)))) =>
    /\ StartsWith(processed.s, "^") <=> LeadingAnchor(regexp) = "^"
    /\ EndsWithAnchor(processed.s) <=> TrailingAnchor(regexp) = "$"

RECURSIVE Sanitized(_)
\* text with every \Q and \E marker removed and every single quote doubled
Sanitized(s) ==
  IF Len(s) = 0 THEN ""
  ELSE IF StartsWith(s, "\\Q") \/ StartsWith(s, "\\E")
       THEN Sanitized(SubSeq(s, 3, Len(s)))
       ELSE (IF CharAt(s, 1) = "'" THEN "''" ELSE CharAt(s, 1))
              \o Sanitized(SubSeq(s, 2, Len(s)))

\* C16: for text outside any \Q...\E span literalizeRegexPart removes every
\* \Q and \E marker and doubles every single quote, however many there are
C16_StrayMarkersAndQuotes ==
  (literalized # Undef /\ Matcher1(regexp) = {} /\ Matcher2(regexp) = {}) =>
    literalized = Str(Sanitized(regexp))

(***************************************************************************)
(* Properties of the schema conversions                                    *)
(***************************************************************************)
\* toParseSchema has returned a schema
Externalised == external # Undef /\ external.kind = "return"

\* C17: toParseSchema gives, for a schema without classLevelPermissions, the
\* entry {'*': true} for each of the six actions; for a schema with a
\* permission map, for each action the entry of the map if the map has the
\* action and the empty entry {} otherwise
C17_ClassLevelPermissions ==
  Externalised =>
    LET given_clps == Get(declared, "classLevelPermissions")
        clps == Get(external.value, "classLevelPermissions")
    IN \A j \in DOMAIN Actions :
         Get(clps, Actions[j])
           = IF given_clps = Undef THEN Obj(<<KV("*", Bool(TRUE))>>)
             ELSE IF KeyIndex(given_clps.kv, Actions[j]) # 0
                  THEN Get(given_clps, Actions[j])
                  ELSE Obj(<<>>)

\* a schema that permits find to admins only has been made external: find has
\* that entry and every other action the empty entry
C17_Witness ==
  /\ Externalised
  /\ Get(declared, "classLevelPermissions") = Op("find", AdminOnly)
  /\ Get(Get(external.value, "classLevelPermissions"), "find") = AdminOnly
  /\ \A j \in 2..Len(Actions) :
       Get(Get(external.value, "classLevelPermissions"), Actions[j]) = Obj(<<>>)

\* the fields toMySQLSchema adds to a schema
ImplicitFields == {"_wperm", "_rperm", "_hashed_password", "_password_history"}

\* C18: the field map of toParseSchema(toMySQLSchema(s)) has none of the fields
\* toMySQLSchema adds, for a schema s of any class: it is the field map s had
\* (the empty map if s had none)
C18_ImplicitFieldsHidden ==
  (Externalised /\ internalised) =>
    /\ \A f \in ImplicitFields : Get(Get(external.value, "fields"), f) = Undef
    /\ Get(external.value, "fields")
         = IF Get(declared, "fields") = Undef THEN Obj(<<>>) ELSE Get(declared, "fields")

(***************************************************************************)
(* Properties of transformUpdate                                           *)
(***************************************************************************)
\* the update has been compiled without error
Transformed == statement # Undef /\ statement.ctl = "return"

\* the tokens of a pattern that are interpolated text: a literal or an identifier
InlinedTokens(pattern) ==
  {j \in DOMAIN pattern : "lit" \in DOMAIN pattern[j] \/ "id" \in DOMAIN pattern[j]}

\* C19: for an update compiled without error the returned index is 2 plus the
\* number of returned values, the placeholder indices of the returned pattern
\* are exactly 2 .. index - 1 (every value pushed is referenced), and the
\* pattern holds no inlined field name or literal
C19_UpdateFullyParameterized ==
  Transformed =>
    /\ statement.index = 2 + Len(statement.values)
    /\ Placeholders(statement.pattern) = 2..(statement.index - 1)
    /\ InlinedTokens(statement.pattern) = {}

\* the authData object the second loop works on (after the folding)
FoldedAuthData == Get(update, "authData")

\* where the values of the authData assignment start in the returned values
AuthDataAt ==
  CHOOSE j \in DOMAIN statement.values : statement.values[j] = QuotedName("authData")

\* the value a provider is to contribute: null for one tagged Delete (a null
\* provider stays null), its JSON encoding otherwise
Contribution(value) ==
  IF IsNullish(value) \/ Get(value, "__op") = Str("Delete") THEN Null
  ELSE JSONstringify(value)

\* C20: for an update compiled without error whose authData object, after the
\* folding, has n >= 1 providers, the returned pattern holds the key
\* placeholder and the value placeholder of each of the n providers, in
\* provider order after the placeholder of the column, and the values they
\* denote are the provider's key and its contribution
C20_AuthDataEveryProvider ==
  (Transformed /\ IsObj(FoldedAuthData) /\ Len(Keys(FoldedAuthData)) >= 1) =>
    \A j \in DOMAIN Keys(FoldedAuthData) :
      /\ AuthDataAt + 2 * j <= Len(statement.values)
      /\ statement.values[AuthDataAt + 2 * j - 1] = Str(Keys(FoldedAuthData)[j])
      /\ statement.values[AuthDataAt + 2 * j]
           = Contribution(Get(FoldedAuthData, Keys(FoldedAuthData)[j]))
      /\ {AuthDataAt + 2 * j, AuthDataAt + 2 * j + 1}
           \subseteq Placeholders(statement.pattern)

\* the update is an Increment of one field that is no dotted path
IncrementOnly ==
  /\ requested # Undef
  /\ Len(requested.kv) = 1
  /\ ~HasDot(requested.kv[1].k)
  /\ Get(requested.kv[1].v, "__op") = Str("Increment")

\* C21: an update {f: {__op: 'Increment', amount: a}} compiles to the one
\* assignment f = COALESCE(f, 0) + a with the values f and a and an index
\* advance of 2; the k-th application to a row leaves a column that was NULL
\* at k * a and one that held old at old + k * a, and for a # 0 a second
\* application changes the value again
C21_IncrementAdds ==
  (Transformed /\ IncrementOnly) =>
    /\ statement.pattern
         = <<BQ, P(2), BQ, T(" = COALESCE("), BQ, P(2), BQ, T(", 0) + "), P(3)>>
    /\ statement.values = <<Str(requested.kv[1].k), Get(requested.kv[1].v, "amount")>>
    /\ statement.index = 4
    /\ \A k \in 1..(Len(rows) - 1) :
         rows[k + 1]
           = Num((IF rows[1] = Null THEN 0 ELSE rows[1].n)
                 + k * Get(requested.kv[1].v, "amount").n)
    /\ (Len(rows) >= 3 /\ Get(requested.kv[1].v, "amount") # Num(0)) => rows[3] # rows[2]

\* {n: {__op: 'Increment', amount: 5}} has been applied twice to a row whose n
\* was NULL: n is 5 and then 10
C21_Witness ==
  /\ Transformed
  /\ requested = Op("n", Increment(5))
  /\ rows = <<Null, Num(5), Num(10)>>

\* C22: when transformUpdate fails with the unsupported-update error the
\* caller gets no pattern and no values, and the update document passed in is
\* as the caller built it
C22_UnsupportedUpdateNoEffect ==
  (statement # Undef /\ statement.err.code = "OPERATION_FORBIDDEN") =>
    /\ statement.ctl # "return"
    /\ statement.pattern = <<>> /\ statement.values = <<>>
    /\ update = requested

(***************************************************************************)
(* Properties of the returned pattern as a condition                       *)
(***************************************************************************)
\* how many times the character c occurs in the verbatim text of a token
CountOf(tok, c) ==
  IF "txt" \in DOMAIN tok
  THEN Cardinality({i \in 1..Len(tok.txt) : CharAt(tok.txt, i) = c})
  ELSE 0

RECURSIVE Depth(_, _)
\* the number of parentheses open after the first j tokens of a pattern
Depth(pattern, j) ==
  IF j = 0 THEN 0
  ELSE Depth(pattern, j - 1) + CountOf(pattern[j], "(") - CountOf(pattern[j], ")")

\* the joints of a pattern that are an OR operator outside every parenthesis.
\* AND binds tighter than OR and ||, so such a joint splits the condition into
\* alternatives: a row that satisfies one side satisfies the whole
TopLevelOr(pattern) ==
  {j \in DOMAIN pattern : pattern[j] \in {T(" OR "), T(" || ")} /\ Depth(pattern, j) = 0}

\* C29: a returned pattern that joins the fragments of several fields with AND
\* is a conjunction of them under operator precedence: no OR operator of some
\* field's fragment stands outside parentheses next to the AND joints
C29_PatternIsConjunction ==
  \A c \in DOMAIN results :
    (results[c].kind = "fragment" /\ FragmentCount(results[c].pattern) >= 2) =>
      TopLevelOr(results[c].pattern) = {}

\* C30: with a schema that declares its fields, a call returns a fragment or
\* fails with a Parse.Error (INVALID_JSON or OPERATION_FORBIDDEN), also for
\* $in and $nin lists that hold null: it never ends with another exception
C30_OnlyParseErrors ==
  Get(schema, "className") = Str("Thing") =>
    \A c \in DOMAIN results :
      \/ results[c].kind = "fragment"
      \/ results[c].error.code \in {"INVALID_JSON", "OPERATION_FORBIDDEN"}

(***************************************************************************)
(* Properties of the recursion                                             *)
(***************************************************************************)
RECURSIVE Size(_)
RECURSIVE SizeOfAll(_)
\* the number of values a value is made of
Size(v) ==
  IF IsObj(v) THEN 1 + SizeOfAll([j \in DOMAIN v.kv |-> v.kv[j].v])
  ELSE IF IsArr(v) THEN 1 + SizeOfAll(v.el)
  ELSE 1
SizeOfAll(vs) == IF Len(vs) = 0 THEN 0 ELSE Size(vs[1]) + SizeOfAll(Tail(vs))

\* C26: every recursive call of buildWhereClause is on a document strictly
\* smaller than its caller's, and every recursive call of literalizeRegexPart
\* on a strictly shorter prefix of its caller's string, so that the chain of
\* calls ends
C26_CallsDescend ==
  [][nesting' > nesting =>
       /\ routine = "buildWhereClause" => Size(document') < Size(document)
       /\ routine = "literalizeRegexPart" =>
            /\ Len(pattern_text') < Len(pattern_text)
            /\ pattern_text' = SubSeq(pattern_text, 1, Len(pattern_text'))]_vars

\* a sub-query of a sub-query is being compiled
C26_Witness == routine = "buildWhereClause" /\ nesting = 2

(***************************************************************************)
(* Properties of the storage adapter                                       *)
(***************************************************************************)
MySQLDuplicateObjectError == "ER_DUP_ENTRY"

\* the operation has ended and the database failed the first statement with code
FailedWith(code) ==
  /\ settled # Undef
  /\ Len(replied) > 0
  /\ ~replied[1].ok
  /\ replied[1].code = code

\* C23: when the statement of find or count fails with ER_NO_SUCH_TABLE, the
\* error is swallowed: find resolves with an empty list and count with 0
C23_MissingTableReadsEmpty ==
  (request # Undef /\ request.op \in {"find", "count"}
     /\ FailedWith(MySQLRelationDoesNotExistError))
    => settled = Resolved(IF request.op = "find" THEN Arr(<<>>) ELSE Num(0))

\* C24: when the statement of createObject, updateObjectsByQuery or
\* deleteObjectsByQuery fails, the promise of the operation rejects; it never
\* resolves as though the write had been carried out
C24_FailedWritesReject ==
  (request # Undef
     /\ request.op \in {"createObject", "updateObjectsByQuery", "deleteObjectsByQuery"}
     /\ \E code \in DriverCodes : FailedWith(code))
    => settled.kind = "reject"

\* the WHERE keyword as the statements hold it
WhereKeyword == {T("WHERE "), T(" WHERE ")}

\* the statement has no WHERE keyword, or the keyword is followed by a
\* condition that is always true
MatchesAll(qs) ==
  \A j \in DOMAIN qs :
    qs[j] \in WhereKeyword => SubSeq(qs, j + 1, Len(qs)) = <<T("TRUE")>>

\* C25: with the query {} the statement that find, count, deleteObjectsByQuery
\* or updateObjectsByQuery issues is well formed and restricts nothing: it has
\* no WHERE keyword or WHERE followed by an always-true condition, never a
\* WHERE followed by nothing
C25_EmptyQueryMatchesAll ==
  (request # Undef
     /\ request.op \in {"find", "count", "deleteObjectsByQuery", "updateObjectsByQuery"}
     /\ request.query = Obj(<<>>))
    => \A j \in DOMAIN issued : MatchesAll(issued[j].qs)

\* C28: upsertOneObject sends the insert of the merged query and update; if
\* and only if the insert fails with the duplicate-entry code of the MySQL
\* driver it sends the update and settles as findOneAndUpdate does; any other
\* failure of the insert is rethrown and no update is sent
C28_UpsertUpdatesOnDuplicate ==
  (request # Undef /\ request.op = "upsertOneObject" /\ settled # Undef)
    => /\ Len(issued) = 2 <=> FailedWith(MySQLDuplicateObjectError)
       /\ Len(issued) = 2 =>
            settled = findOneAndUpdate("Thing", request.query, request.update,
                                       replied[2]).settled
       /\ (Len(issued) = 1 /\ ~replied[1].ok) =>
            settled = Rejected(DriverError(replied[1]))

(***************************************************************************)
(* Properties of connect()                                                 *)
(***************************************************************************)
\* the attempts that are pending and the connections that are established
InFlight == {c \in DOMAIN connections : connections[c] \in {"pending", "open"}}

\* C27: connect() is single-flight: at any time at most one attempt is pending
\* or connection established; createConnection is called only when no promise
\* is cached, and a connect() made while one is cached returns it; the cached
\* promise is cleared only by the failure or an event of its own attempt,
\* never by an event of an earlier connection
C27_SingleFlight ==
  /\ [](Cardinality(InFlight) <= 1)
  /\ [][/\ Len(connections') > Len(connections) => connectionPromise = 0
        /\ (connectionPromise # 0 /\ returned' # returned) =>
              returned' = connectionPromise
        /\ (connectionPromise # 0 /\ connectionPromise' = 0) =>
              connections'[connectionPromise] # connections[connectionPromise]]_vars

====
